---- MODULE Spec2Model ----
(***************************************************************************)
(* Model of @heliomarpm/kvs: the KeyValues facade (src/core/keyvalues.ts), *)
(* the JsonFileHelper persistence gateway (src/internal/JsonFileHelper.ts) *)
(* and the lodash path functions and JSON conversions the facade calls.    *)
(*                                                                         *)
(* A JSON value is a record tagged by t:                                   *)
(*   null, bool(b), num(n), str(s), obj(e), arr(a, e)                      *)
(* obj.e is the sequence of [k, v] entries in JavaScript's own-key order;  *)
(* arr.a are the indexed elements (0-based index i is a[i+1]), arr.e the   *)
(* named (non-index) properties an in-memory array may carry.  A hole is   *)
(* an array element that was deleted or never assigned; undef is           *)
(* JavaScript's undefined.                                                 *)
(***************************************************************************)
EXTENDS Naturals, Sequences, FiniteSets, TLC

VARIABLES
    fs,        \* the directory and the file on disk
    config,    \* the options each facade instance was constructed with, which
               \* its jsonHelper keeps
    options,   \* this.options of each facade instance
    last,      \* the most recent call and its outcome
    prev,      \* fs as it was before that call
    written,   \* the key paths written since the document was empty
    lastSave,  \* the text of the most recent completed write, and its writer
    steps,     \* the number of calls made
    run        \* the non-blocking calls in progress, step by step

vars == <<fs, config, options, last, prev, written, lastSave, steps, run>>

----------------------------------------------------------------------------
(* Bounds *)

MaxSteps == 2
MaxPathLen == 2

----------------------------------------------------------------------------
(* Values *)

Null == [t |-> "null"]
Undef == [t |-> "undef"]
Hole == [t |-> "hole"]
Bool(b) == [t |-> "bool", b |-> b]
Num(n) == [t |-> "num", n |-> n]
Str(s) == [t |-> "str", s |-> s]
Obj(e) == [t |-> "obj", e |-> e]
ArrP(a, e) == [t |-> "arr", a |-> a, e |-> e]
Arr(a) == ArrP(a, <<>>)
KV(k, v) == [k |-> k, v |-> v]
EmptyObj == Obj(<<>>)

\* lodash isObject: typeof value is "object" or "function", and not null
IsObject(v) == v.t \in {"obj", "arr"}

\* value == null in JavaScript: null or undefined
IsNullish(v) == v.t \in {"null", "undef", "hole"}

\* The array indices that occur as path segments, with their numeric value
\* (lodash isIndex: /^(?:0|[1-9]\d*)$/).
IdxVal == [s \in {"0", "1", "2"} |-> CASE s = "0" -> 0 [] s = "1" -> 1 [] s = "2" -> 2]
IsIndex(k) == k \in DOMAIN IdxVal

\* The characters of the strings that occur as values.
StrChars == [s \in {"", "x", "y", "xy"} |->
               CASE s = "" -> <<>> [] s = "x" -> <<"x">> [] s = "y" -> <<"y">>
                 [] s = "xy" -> <<"x", "y">>]

Keys(e) == {e[i].k : i \in DOMAIN e}
EntryIdx(e, k) == CHOOSE i \in DOMAIN e : e[i].k = k
Lookup(e, k) == IF k \in Keys(e) THEN e[EntryIdx(e, k)].v ELSE Undef

\* JavaScript own-property order: index keys ascending, then the others in
\* insertion order.  InsertKey places a new key accordingly.
IndexKeysBefore(e, k) ==
    Cardinality({i \in DOMAIN e : IsIndex(e[i].k) /\ IdxVal[e[i].k] < IdxVal[k]})

InsertKey(e, k, v) ==
    IF IsIndex(k)
    THEN LET n == IndexKeysBefore(e, k)
         IN SubSeq(e, 1, n) \o <<KV(k, v)>> \o SubSeq(e, n + 1, Len(e))
    ELSE Append(e, KV(k, v))

PutEntry(e, k, v) ==
    IF k \in Keys(e) THEN [e EXCEPT ![EntryIdx(e, k)] = KV(k, v)]
    ELSE InsertKey(e, k, v)

DelEntry(e, k) == SelectSeq(e, LAMBDA x : x.k # k)

\* object[key] in JavaScript
PropGet(v, k) ==
    CASE v.t = "obj" -> Lookup(v.e, k)
      [] v.t = "arr" ->
           IF IsIndex(k)
           THEN IF IdxVal[k] < Len(v.a)
                THEN (IF v.a[IdxVal[k] + 1] = Hole THEN Undef ELSE v.a[IdxVal[k] + 1])
                ELSE Undef
           ELSE Lookup(v.e, k)
      [] v.t = "str" ->
           IF IsIndex(k) /\ IdxVal[k] < Len(StrChars[v.s])
           THEN Str(StrChars[v.s][IdxVal[k] + 1]) ELSE Undef
      [] OTHER -> Undef

\* Object.prototype.hasOwnProperty.call(object, key)
HasOwn(v, k) ==
    CASE v.t = "obj" -> k \in Keys(v.e)
      [] v.t = "arr" ->
           IF IsIndex(k)
           THEN IdxVal[k] < Len(v.a) /\ v.a[IdxVal[k] + 1] # Hole
           ELSE k \in Keys(v.e)
      [] v.t = "str" -> IsIndex(k) /\ IdxVal[k] < Len(StrChars[v.s])
      [] OTHER -> FALSE

Holes(n) == [i \in 1..n |-> Hole]

\* AssignValue with the element pushed onto the end of the array instead of
\* stored at its index
AssignValue_Dense(c, k, v) ==
    CASE c.t = "obj" -> Obj(PutEntry(c.e, k, v))
      [] c.t = "arr" ->
           IF IsIndex(k)
           THEN LET i == IdxVal[k]
                IN IF i < Len(c.a) THEN ArrP([c.a EXCEPT ![i + 1] = v], c.e)
                   ELSE ArrP(Append(c.a, v), c.e)
           ELSE ArrP(c.a, PutEntry(c.e, k, v))
      [] OTHER -> c

\* object[key] = value on an object or an array
AssignValue(c, k, v) ==
    CASE c.t = "obj" -> Obj(PutEntry(c.e, k, v))
      [] c.t = "arr" ->
           IF IsIndex(k)
           THEN LET i == IdxVal[k]
                IN IF i < Len(c.a) THEN ArrP([c.a EXCEPT ![i + 1] = v], c.e)
                   ELSE ArrP(c.a \o Holes(i - Len(c.a)) \o <<v>>, c.e)
           ELSE ArrP(c.a, PutEntry(c.e, k, v))
      [] OTHER -> c

\* delete object[key]: the result of the delete operator and the object
\* afterwards.  Deleting an array index leaves a hole; the indices of a
\* string are not configurable, so the delete fails (lodash is not strict
\* mode code: the operator yields false instead of throwing).
DeleteProp(c, k) ==
    CASE c.t = "obj" -> [ret |-> TRUE, v |-> Obj(DelEntry(c.e, k))]
      [] c.t = "arr" ->
           IF IsIndex(k)
           THEN [ret |-> TRUE,
                 v |-> IF IdxVal[k] < Len(c.a)
                       THEN ArrP([c.a EXCEPT ![IdxVal[k] + 1] = Hole], c.e) ELSE c]
           ELSE [ret |-> TRUE, v |-> ArrP(c.a, DelEntry(c.e, k))]
      [] c.t = "str" -> [ret |-> ~HasOwn(c, k), v |-> c]
      [] OTHER -> [ret |-> TRUE, v |-> c]

----------------------------------------------------------------------------
(* Key paths *)

\* A key path argument: absent, an array of segments, or a string written
\* as a sequence of its parts (segments, ".", "[" and "]").
NoPath == [kind |-> "none", segs |-> <<>>]
ArrPath(p) == [kind |-> "arr", segs |-> p]
StrPath(s) == [kind |-> "str", segs |-> s]

\* JavaScript truthiness of the argument: undefined and "" are falsy, every
\* array (also the empty one) is truthy.
Truthy(kp) == kp.kind = "arr" \/ (kp.kind = "str" /\ kp.segs # <<>>)

\* lodash stringToPath: splits at "." and at "[i]"
RECURSIVE StringToPath(_)
StringToPath(s) ==
    IF s = <<>> THEN <<>>
    ELSE IF Head(s) \in {".", "[", "]"} THEN StringToPath(Tail(s))
    ELSE <<Head(s)>> \o StringToPath(Tail(s))

\* lodash castPath: a string without "." and "[" (also the empty string) is
\* one key, any other string is split, an array is used as it is
CastPath(kp) ==
    IF kp.kind = "str"
    THEN (IF kp.segs = <<>> THEN <<"">> ELSE StringToPath(kp.segs))
    ELSE kp.segs

\* lodash baseGet / get
RECURSIVE BaseGet(_, _, _)
BaseGet(object, path, index) ==
    IF ~IsNullish(object) /\ index < Len(path)
    THEN BaseGet(PropGet(object, path[index + 1]), path, index + 1)
    ELSE IF index # 0 /\ index = Len(path)
         THEN (IF object = Hole THEN Undef ELSE object)
         ELSE Undef

LGet(object, kp) == IF IsNullish(object) THEN Undef ELSE BaseGet(object, CastPath(kp), 0)

\* lodash hasPath with baseHas
RECURSIVE HasPath(_, _, _)
HasPath(object, path, index) ==
    IF index >= Len(path) THEN index > 0
    ELSE LET key == path[index + 1]
         IN IF ~IsNullish(object) /\ HasOwn(object, key)
            THEN HasPath(PropGet(object, key), path, index + 1)
            ELSE /\ index + 1 = Len(path)
                 /\ object.t = "arr"
                 /\ IsIndex(key)
                 /\ IdxVal[key] < Len(object.a)

LHas(object, kp) == HasPath(object, CastPath(kp), 0)

\* baseSet with a mapping merged into the mapping it replaces
RECURSIVE SetIn_Merge(_, _, _)
SetIn_Merge(nested, path, value) ==
    IF Len(path) = 1
    THEN LET old == PropGet(nested, path[1])
         IN AssignValue(nested, path[1],
                IF old.t = "obj" /\ value.t = "obj"
                THEN Obj(value.e \o SelectSeq(old.e, LAMBDA x : x.k \notin Keys(value.e)))
                ELSE value)
    ELSE LET objValue == PropGet(nested, path[1])
             newValue == IF IsObject(objValue) THEN objValue
                         ELSE IF IsIndex(path[2]) THEN Arr(<<>>) ELSE EmptyObj
         IN AssignValue(nested, path[1], SetIn_Merge(newValue, Tail(path), value))

\* baseSet with a mapping made for every missing segment
RECURSIVE SetIn_Mappings(_, _, _)
SetIn_Mappings(nested, path, value) ==
    IF Len(path) = 1 THEN AssignValue(nested, path[1], value)
    ELSE LET objValue == PropGet(nested, path[1])
             newValue == IF IsObject(objValue) THEN objValue ELSE EmptyObj
         IN AssignValue(nested, path[1], SetIn_Mappings(newValue, Tail(path), value))

\* baseSet leaving the object as it is when the path runs into a value that
\* is not a container
RECURSIVE SetIn_Blocked(_, _, _)
SetIn_Blocked(nested, path, value) ==
    IF Len(path) = 1 THEN AssignValue(nested, path[1], value)
    ELSE LET objValue == PropGet(nested, path[1])
             newValue == IF IsObject(objValue) THEN objValue
                         ELSE IF IsIndex(path[2]) THEN Arr(<<>>) ELSE EmptyObj
         IN IF HasOwn(nested, path[1]) /\ ~IsObject(objValue) THEN nested
            ELSE AssignValue(nested, path[1], SetIn_Blocked(newValue, Tail(path), value))

\* lodash baseSet / set
RECURSIVE SetIn(_, _, _)
SetIn(nested, path, value) ==
    IF Len(path) = 1 THEN AssignValue(nested, path[1], value)
    ELSE LET objValue == PropGet(nested, path[1])
             newValue == IF IsObject(objValue) THEN objValue
                         ELSE IF IsIndex(path[2]) THEN Arr(<<>>) ELSE EmptyObj
         IN AssignValue(nested, path[1], SetIn(newValue, Tail(path), value))

\* set answering with the value in place of the object it was given
LSet_Root(object, kp, value) == value

LSet(object, kp, value) ==
    IF ~IsObject(object) \/ CastPath(kp) = <<>> THEN object
    ELSE SetIn(object, CastPath(kp), value)

\* lodash baseUnset / unset: the result and the object afterwards
RECURSIVE DeleteAt(_, _)
DeleteAt(object, path) ==
    IF Len(path) = 1 THEN DeleteProp(object, path[1])
    ELSE LET child == PropGet(object, path[1])
         IN IF IsNullish(child) THEN [ret |-> TRUE, v |-> object]
            ELSE LET r == DeleteAt(child, Tail(path))
                 IN [ret |-> r.ret,
                     v |-> IF IsObject(object) THEN AssignValue(object, path[1], r.v)
                           ELSE object]

LUnset(object, kp) ==
    IF IsNullish(object) THEN [ret |-> TRUE, v |-> object]
    ELSE IF CastPath(kp) = <<>> THEN DeleteProp(object, "undefined")
    ELSE DeleteAt(object, CastPath(kp))

----------------------------------------------------------------------------
(* JSON text *)

\* The text of a file is a sequence of tokens: punctuation (p), string
\* literals (s), numbers (n), the literals null/true/false (l) and white
\* space (w): a line break followed by n spaces, or the single space that
\* follows a colon.
P(c) == [k |-> "p", c |-> c, n |-> 0]
S(s) == [k |-> "s", c |-> s, n |-> 0]
N(n) == [k |-> "n", c |-> "", n |-> n]
L(c) == [k |-> "l", c |-> c, n |-> 0]
NL(n) == [k |-> "w", c |-> "nl", n |-> n]
SP == [k |-> "w", c |-> "sp", n |-> 0]

EmptyObjText == <<P("{"), P("}")>>

\* JSON.stringify drops the members whose value is undefined
Serializable(e) == SelectSeq(e, LAMBDA x : x.v.t \notin {"undef", "hole"})

RECURSIVE Stringify(_, _, _), StringifyMembers(_, _, _), StringifyElements(_, _, _)
\* JSON.stringify(v, null, gap) at the current indentation
Stringify(v, gap, indent) ==
    CASE v.t \in {"null", "undef", "hole"} -> <<L("null")>>
      [] v.t = "bool" -> <<L(IF v.b THEN "true" ELSE "false")>>
      [] v.t = "num" -> <<N(v.n)>>
      [] v.t = "str" -> <<S(v.s)>>
      [] v.t = "obj" ->
           IF Serializable(v.e) = <<>> THEN <<P("{"), P("}")>>
           ELSE IF gap = 0
           THEN <<P("{")>> \o StringifyMembers(Serializable(v.e), gap, indent) \o <<P("}")>>
           ELSE <<P("{"), NL(indent + gap)>>
                \o StringifyMembers(Serializable(v.e), gap, indent + gap)
                \o <<NL(indent), P("}")>>
      [] v.t = "arr" ->
           IF v.a = <<>> THEN <<P("["), P("]")>>
           ELSE IF gap = 0
           THEN <<P("[")>> \o StringifyElements(v.a, gap, indent) \o <<P("]")>>
           ELSE <<P("["), NL(indent + gap)>>
                \o StringifyElements(v.a, gap, indent + gap)
                \o <<NL(indent), P("]")>>

StringifyMembers(e, gap, indent) ==
    LET m == <<S(e[1].k), P(":")>> \o (IF gap = 0 THEN <<>> ELSE <<SP>>)
             \o Stringify(e[1].v, gap, indent)
    IN IF Len(e) = 1 THEN m
       ELSE m \o <<P(",")>> \o (IF gap = 0 THEN <<>> ELSE <<NL(indent)>>)
              \o StringifyMembers(Tail(e), gap, indent)

StringifyElements(a, gap, indent) ==
    LET m == Stringify(a[1], gap, indent)
    IN IF Len(a) = 1 THEN m
       ELSE m \o <<P(",")>> \o (IF gap = 0 THEN <<>> ELSE <<NL(indent)>>)
              \o StringifyElements(Tail(a), gap, indent)

\* JSON.stringify(value, null, space): the indentation is capped at 10
JSONStringify(v, space) == Stringify(v, IF space > 10 THEN 10 ELSE space, 0)

ParseFail == [ok |-> FALSE, v |-> Undef, i |-> 0]

SkipWs(toks, i) ==
    CHOOSE j \in i..(Len(toks) + 1) :
        /\ \A m \in i..(j - 1) : toks[m].k = "w"
        /\ j = Len(toks) + 1 \/ toks[j].k # "w"

RECURSIVE ParseValue(_, _), ParseMembers(_, _, _), ParseElements(_, _, _)
\* One JSON value starting at token i: whether it parsed, the value, and
\* the position after it.
ParseValue(toks, i) ==
    LET j == SkipWs(toks, i)
    IN IF j > Len(toks) THEN ParseFail
       ELSE LET tk == toks[j]
            IN CASE tk.k = "l" ->
                      [ok |-> TRUE,
                       v |-> IF tk.c = "null" THEN Null ELSE Bool(tk.c = "true"),
                       i |-> j + 1]
                 [] tk.k = "n" -> [ok |-> TRUE, v |-> Num(tk.n), i |-> j + 1]
                 [] tk.k = "s" -> [ok |-> TRUE, v |-> Str(tk.c), i |-> j + 1]
                 [] tk = P("{") ->
                      LET j2 == SkipWs(toks, j + 1)
                      IN IF j2 <= Len(toks) /\ toks[j2] = P("}")
                         THEN [ok |-> TRUE, v |-> EmptyObj, i |-> j2 + 1]
                         ELSE ParseMembers(toks, j + 1, <<>>)
                 [] tk = P("[") ->
                      LET j2 == SkipWs(toks, j + 1)
                      IN IF j2 <= Len(toks) /\ toks[j2] = P("]")
                         THEN [ok |-> TRUE, v |-> Arr(<<>>), i |-> j2 + 1]
                         ELSE ParseElements(toks, j + 1, <<>>)
                 [] OTHER -> ParseFail

ParseMembers(toks, i, acc) ==
    LET j == SkipWs(toks, i)
    IN IF j > Len(toks) \/ toks[j].k # "s" THEN ParseFail
       ELSE LET c == SkipWs(toks, j + 1)
            IN IF c > Len(toks) \/ toks[c] # P(":") THEN ParseFail
               ELSE LET r == ParseValue(toks, c + 1)
                    IN IF ~r.ok THEN ParseFail
                       ELSE LET acc2 == PutEntry(acc, toks[j].c, r.v)
                                d == SkipWs(toks, r.i)
                            IN IF d > Len(toks) THEN ParseFail
                               ELSE IF toks[d] = P(",") THEN ParseMembers(toks, d + 1, acc2)
                               ELSE IF toks[d] = P("}")
                                    THEN [ok |-> TRUE, v |-> Obj(acc2), i |-> d + 1]
                                    ELSE ParseFail

ParseElements(toks, i, acc) ==
    LET r == ParseValue(toks, i)
    IN IF ~r.ok THEN ParseFail
       ELSE LET acc2 == Append(acc, r.v)
                d == SkipWs(toks, r.i)
            IN IF d > Len(toks) THEN ParseFail
               ELSE IF toks[d] = P(",") THEN ParseElements(toks, d + 1, acc2)
               ELSE IF toks[d] = P("]")
                    THEN [ok |-> TRUE, v |-> Arr(acc2), i |-> d + 1]
                    ELSE ParseFail

\* JSON.parse(text): fails on anything but one value followed by white space
JSONParse(text) ==
    LET r == ParseValue(text, 1)
    IN IF r.ok /\ SkipWs(text, r.i) > Len(text)
       THEN [ok |-> TRUE, v |-> r.v] ELSE [ok |-> FALSE, v |-> Undef]

----------------------------------------------------------------------------
(* JsonFileHelper: the file system and the load and save of the document *)

\* fs is the directory and the file the configuration resolves to:
\* dir and exists tell whether they are present, text is the file content.

NoErr == [isError |-> FALSE, msg |-> <<>>]
ErrorOf(msg) == [isError |-> TRUE, msg |-> msg]
SyntaxError == ErrorOf(<<"Unexpected token in JSON">>)
EACCES == ErrorOf(<<"EACCES: permission denied">>)
PlainString == [isError |-> FALSE, msg |-> <<"a plain string error">>]

\* The error a file system request fails with when it is made to fail
FsError(request) == ErrorOf(<<"EACCES: permission denied, ", request>>)

\* The outcome of a step of the gateway: the file system afterwards, the
\* error when the step failed, and the write functions it called on the
\* file, in order
Ok(f) == [fs |-> f, ok |-> TRUE, err |-> NoErr, via |-> <<>>]
Fail(f, err) == [fs |-> f, ok |-> FALSE, err |-> err, via |-> <<>>]

\* fault names the file system request that fails in the call, with an error
\* other than ENOENT: "EACCES" the stat of the file, "statDir" the stat of
\* the directory, "mkdir", "open" and "write" the opening and the writing of
\* the file that is written, "read" the reading of the file; "none": no
\* request fails.

\* ensureJsonDir going on to write when the stat of the directory fails
EnsureJsonDir_Swallow(f, fault) ==
    IF f.dir \/ fault = "statDir" THEN Ok(f)
    ELSE IF fault = "mkdir" THEN Fail(f, FsError("mkdir"))
    ELSE Ok([f EXCEPT !.dir = TRUE])

\* fs.stat / fs.mkdir of ensureJsonDir
EnsureJsonDir(f, fault) ==
    IF fault = "statDir" THEN Fail(f, FsError("stat"))
    ELSE IF f.dir THEN Ok(f)
    ELSE IF fault = "mkdir" THEN Fail(f, FsError("mkdir"))
    ELSE Ok([f EXCEPT !.dir = TRUE])

\* fs.statSync / fs.mkdirSync of ensureJsonDirSync
EnsureJsonDirSync(f, fault) ==
    IF fault = "statDir" THEN Fail(f, FsError("stat"))
    ELSE IF f.dir THEN Ok(f)
    ELSE IF fault = "mkdir" THEN Fail(f, FsError("mkdir"))
    ELSE Ok([f EXCEPT !.dir = TRUE])

\* write-file-atomic: the target is replaced by a rename of a temporary file
WriteFileAtomic(f, content) == [f EXCEPT !.exists = TRUE, !.text = content]

\* fs.writeFile opens the file with flag 'w': it is created or truncated
OpenTruncate(f) == [f EXCEPT !.exists = TRUE, !.text = <<>>]

\* and writes the content from offset 0 of the file as it then is
WriteData(f, content) ==
    [f EXCEPT !.exists = TRUE,
              !.text = content \o SubSeq(f.text, Len(content) + 1, Len(f.text))]

\* fs.writeFile / fs.writeFileSync: truncate and write
WriteFile(f, content) == WriteData(OpenTruncate(f), content)

\* The first step of the write with every file written in place
WriteOpen_InPlace(f, o) == OpenTruncate(f)

\* The first step of the write of a save: with atomicSave the temporary file
\* is written and the target is untouched, otherwise the target is truncated
WriteOpen(f, o) == IF o.atomicSave THEN f ELSE OpenTruncate(f)

\* The last step of the write with the content written over the target
WriteCommit_InPlace(f, o, content) == WriteData(f, content)

\* The last step of the write: the rename over the target, or the write of
\* the content into the truncated target
WriteCommit(f, o, content) ==
    IF o.atomicSave THEN WriteFileAtomic(f, content) ELSE WriteData(f, content)

\* The indentation with numSpaces used whether or not prettify is set
NumSpaces_Always(o) == o.numSpaces

NumSpaces(o) == IF o.prettify THEN o.numSpaces ELSE 0

\* The write of the text with fs.writeFile whatever atomicSave is
WriteText_Direct(f, o, content, fault) ==
    [(IF fault = "open" THEN Fail(f, FsError("open"))
      ELSE IF fault = "write" THEN Fail(OpenTruncate(f), FsError("write"))
      ELSE Ok(WriteFile(f, content)))
     EXCEPT !.via = <<"writeFile">>]

\* The write of the text, by writeFileAtomic (or its sync form) with
\* atomicSave and by fs.writeFile (or fs.writeFileSync) without: it can fail
\* before the file is opened, or after
WriteText(f, o, content, fault) ==
    IF o.atomicSave
    THEN [(IF fault = "open" THEN Fail(f, FsError("open"))
           ELSE IF fault = "write" THEN Fail(WriteOpen(f, o), FsError("write"))
           ELSE Ok(WriteFileAtomic(f, content)))
          EXCEPT !.via = <<"writeFileAtomic">>]
    ELSE [(IF fault = "open" THEN Fail(f, FsError("open"))
           ELSE IF fault = "write" THEN Fail(WriteOpen(f, o), FsError("write"))
           ELSE Ok(WriteFile(f, content)))
          EXCEPT !.via = <<"writeFile">>]

SaveKeyValues(f, o, obj, fault) ==
    LET content == JSONStringify(obj, NumSpaces(o))
        d == EnsureJsonDir(f, fault)
    IN IF d.ok THEN WriteText(d.fs, o, content, fault) ELSE d

SaveKeyValuesSync(f, o, obj, fault) ==
    LET data == JSONStringify(obj, NumSpaces(o))
        d == EnsureJsonDirSync(f, fault)
    IN IF d.ok THEN WriteText(d.fs, o, data, fault) ELSE d

\* ensureJsonFile leaving a missing file missing
EnsureJsonFile_NoCreate(f, o, fault) == Ok(f)

\* fs.stat of the file; ENOENT is answered by saving the empty document
EnsureJsonFile(f, o, fault) ==
    IF fault = "EACCES" THEN Fail(f, EACCES)
    ELSE IF f.exists THEN Ok(f)
    ELSE SaveKeyValues(f, o, EmptyObj, fault)

EnsureJsonFileSync(f, o, fault) ==
    IF fault = "EACCES" THEN Fail(f, EACCES)
    ELSE IF f.exists THEN Ok(f)
    ELSE SaveKeyValuesSync(f, o, EmptyObj, fault)

LoadFailed(f, err) == [fs |-> f, ok |-> FALSE, obj |-> Undef, err |-> err]

\* loadKeyValues with a parse failure answered by the empty document
LoadKeyValues_Lenient(f, o, fault) ==
    IF fault = "plain" THEN LoadFailed(f, PlainString)
    ELSE LET e == EnsureJsonFile(f, o, fault)
             data == e.fs.text
             jsonData == IF data # <<>> THEN data ELSE EmptyObjText
             r == JSONParse(jsonData)
         IN IF ~e.ok THEN LoadFailed(e.fs, e.err)
            ELSE IF fault = "read" THEN LoadFailed(e.fs, FsError("read"))
            ELSE [fs |-> e.fs, ok |-> TRUE, obj |-> IF r.ok THEN r.v ELSE EmptyObj,
                  err |-> NoErr]

\* loadKeyValues parsing the text as it is read, empty or not
LoadKeyValues_Strict(f, o, fault) ==
    IF fault = "plain" THEN LoadFailed(f, PlainString)
    ELSE LET e == EnsureJsonFile(f, o, fault)
             r == JSONParse(e.fs.text)
         IN IF ~e.ok THEN LoadFailed(e.fs, e.err)
            ELSE IF fault = "read" THEN LoadFailed(e.fs, FsError("read"))
            ELSE IF r.ok THEN [fs |-> e.fs, ok |-> TRUE, obj |-> r.v, err |-> NoErr]
            ELSE LoadFailed(e.fs, SyntaxError)

\* loadKeyValues.  The fault "plain" is the loader replaced by a stub that
\* rejects with a value that is not an Error.
LoadKeyValues(f, o, fault) ==
    IF fault = "plain" THEN LoadFailed(f, PlainString)
    ELSE LET e == EnsureJsonFile(f, o, fault)
             data == e.fs.text
             jsonData == IF data # <<>> THEN data ELSE EmptyObjText
             r == JSONParse(jsonData)
         IN IF ~e.ok THEN LoadFailed(e.fs, e.err)
            ELSE IF fault = "read" THEN LoadFailed(e.fs, FsError("read"))
            ELSE IF r.ok THEN [fs |-> e.fs, ok |-> TRUE, obj |-> r.v, err |-> NoErr]
            ELSE LoadFailed(e.fs, SyntaxError)

LoadKeyValuesSync(f, o, fault) ==
    IF fault = "plain" THEN LoadFailed(f, PlainString)
    ELSE LET e == EnsureJsonFileSync(f, o, fault)
             data == e.fs.text
             r == JSONParse(IF Len(data) # 0 THEN data ELSE EmptyObjText)
         IN IF ~e.ok THEN LoadFailed(e.fs, e.err)
            ELSE IF fault = "read" THEN LoadFailed(e.fs, FsError("read"))
            ELSE IF r.ok THEN [fs |-> e.fs, ok |-> TRUE, obj |-> r.v, err |-> NoErr]
            ELSE LoadFailed(e.fs, SyntaxError)

----------------------------------------------------------------------------
(* KeyValues: the facade operations, each as the file system afterwards *)
(* and the outcome of the call                                         *)

\* ok: resolved / returned; ret: the value returned; err: the error the
\* call failed with; saved: whether the facade issued a save.
Done(f, ret, saved) == [fs |-> f, ok |-> TRUE, ret |-> ret, err |-> NoErr, saved |-> saved]
Failed(f, err) == [fs |-> f, ok |-> FALSE, ret |-> Undef, err |-> err, saved |-> FALSE]

\* The call ends with its save: it returns ret when the save succeeds and
\* fails with the error of the save otherwise
Saved(s, ret) ==
    IF s.ok THEN Done(s.fs, ret, TRUE) ELSE [Failed(s.fs, s.err) EXCEPT !.saved = TRUE]

\* set with the single argument merged into the stored document
KvSet_Merge(f, o, nargs, kp, value, fault) ==
    LET l == LoadKeyValues(f, o, fault)
    IN IF ~l.ok THEN Failed(l.fs, l.err)
       ELSE IF nargs = 1
       THEN Saved(SaveKeyValues(l.fs, o,
                    Obj(l.obj.e \o SelectSeq(value.e, LAMBDA x : x.k \notin Keys(l.obj.e))), fault), Undef)
       ELSE Saved(SaveKeyValues(l.fs, o, LSet(l.obj, kp, value), fault), Undef)

\* the catch block of get
WrapGetError(err) ==
    IF err.isError THEN ErrorOf(<<"Failed to get value: ">> \o err.msg)
    ELSE ErrorOf(<<"Failed to get value: ", "Unknown error">>)

\* set with the catch block of get around it
KvSet_Wrapped(f, o, nargs, kp, value, fault) ==
    IF nargs = 1 THEN Saved(SaveKeyValues(f, o, value, fault), Undef)
    ELSE LET l == LoadKeyValues(f, o, fault)
         IN IF ~l.ok THEN Failed(l.fs, WrapGetError(l.err))
            ELSE Saved(SaveKeyValues(l.fs, o, LSet(l.obj, kp, value), fault), Undef)

\* set: one argument replaces the document, two write at the key path
KvSet(f, o, nargs, kp, value, fault) ==
    LET Then(l) ==
            IF ~l.ok THEN Failed(l.fs, l.err)
            ELSE Saved(SaveKeyValues(l.fs, o, LSet(l.obj, kp, value), fault), Undef)
    IN IF nargs = 1 THEN Saved(SaveKeyValues(f, o, value, fault), Undef)
       ELSE Then(LoadKeyValues(f, o, fault))

KvSetSync(f, o, nargs, kp, value, fault) ==
    LET Then(l) ==
            IF ~l.ok THEN Failed(l.fs, l.err)
            ELSE Saved(SaveKeyValuesSync(l.fs, o, LSet(l.obj, kp, value), fault), Undef)
    IN IF nargs = 1 THEN Saved(SaveKeyValuesSync(f, o, value, fault), Undef)
       ELSE Then(LoadKeyValuesSync(f, o, fault))

KvGet(f, o, kp, fault) ==
    LET Then(l) ==
            IF ~l.ok THEN Failed(l.fs, WrapGetError(l.err))
            ELSE Done(l.fs, IF Truthy(kp) THEN LGet(l.obj, kp) ELSE l.obj, FALSE)
    IN Then(LoadKeyValues(f, o, fault))

\* getSync answering from the file content seen by the call before
KvGetSync_Stale(f, o, kp, fault) ==
    LET l == LoadKeyValuesSync(f, o, fault)
        s == LoadKeyValuesSync(prev, o, fault)
    IN IF ~l.ok \/ ~s.ok THEN Failed(l.fs, l.err)
       ELSE Done(l.fs, IF Truthy(kp) THEN LGet(s.obj, kp) ELSE s.obj, FALSE)

KvGetSync(f, o, kp, fault) ==
    LET Then(l) ==
            IF ~l.ok THEN Failed(l.fs, l.err)
            ELSE Done(l.fs, IF Truthy(kp) THEN LGet(l.obj, kp) ELSE l.obj, FALSE)
    IN Then(LoadKeyValuesSync(f, o, fault))

KvHas(f, o, kp, fault) ==
    LET Then(l) ==
            IF ~l.ok THEN Failed(l.fs, l.err) ELSE Done(l.fs, Bool(LHas(l.obj, kp)), FALSE)
    IN Then(LoadKeyValues(f, o, fault))

KvHasSync(f, o, kp, fault) ==
    LET Then(l) ==
            IF ~l.ok THEN Failed(l.fs, l.err) ELSE Done(l.fs, Bool(LHas(l.obj, kp)), FALSE)
    IN Then(LoadKeyValuesSync(f, o, fault))

\* unset as keyvalues.ts had it before: the result of the removal decides
KvUnset_ByRemoval(f, o, kp, fault) ==
    LET l == LoadKeyValues(f, o, fault)
    IN IF ~l.ok THEN Failed(l.fs, l.err)
       ELSE LET u == LUnset(l.obj, kp)
            IN IF Truthy(kp)
               THEN (IF u.ret THEN Saved(SaveKeyValues(l.fs, o, u.v, fault), Bool(TRUE))
                     ELSE Done(l.fs, Bool(FALSE), FALSE))
               ELSE IF JSONStringify(l.obj, 0) # EmptyObjText
               THEN Saved(SaveKeyValues(l.fs, o, EmptyObj, fault), Bool(TRUE))
               ELSE Done(l.fs, Bool(FALSE), FALSE)

\* unset writing {} over a document that is already empty before it
\* answers false
KvUnset_Rewriting(f, o, kp, fault) ==
    LET l == LoadKeyValues(f, o, fault)
    IN IF ~l.ok THEN Failed(l.fs, l.err)
       ELSE IF JSONStringify(l.obj, 0) # EmptyObjText
       THEN LET u == LUnset(l.obj, kp)
            IN IF Truthy(kp) /\ u.ret
               THEN Saved(SaveKeyValues(l.fs, o, u.v, fault), Bool(TRUE))
               ELSE Saved(SaveKeyValues(l.fs, o, EmptyObj, fault), Bool(TRUE))
       ELSE Saved(SaveKeyValues(l.fs, o, EmptyObj, fault), Bool(FALSE))

\* unset answering false, and saving nothing, for a path that is not there
KvUnset_IfThere(f, o, kp, fault) ==
    LET l == LoadKeyValues(f, o, fault)
    IN IF ~l.ok THEN Failed(l.fs, l.err)
       ELSE IF Truthy(kp) /\ ~LHas(l.obj, kp) THEN Done(l.fs, Bool(FALSE), FALSE)
       ELSE IF JSONStringify(l.obj, 0) # EmptyObjText
       THEN LET u == LUnset(l.obj, kp)
            IN IF Truthy(kp) /\ u.ret
               THEN Saved(SaveKeyValues(l.fs, o, u.v, fault), Bool(TRUE))
               ELSE Saved(SaveKeyValues(l.fs, o, EmptyObj, fault), Bool(TRUE))
       ELSE Done(l.fs, Bool(FALSE), FALSE)

KvUnset(f, o, kp, fault) ==
    LET Removed(l, u) ==
            IF Truthy(kp) /\ u.ret
            THEN Saved(SaveKeyValues(l.fs, o, u.v, fault), Bool(TRUE))
            ELSE Saved(SaveKeyValues(l.fs, o, EmptyObj, fault), Bool(TRUE))
        Then(l) ==
            IF ~l.ok THEN Failed(l.fs, l.err)
            ELSE IF JSONStringify(l.obj, 0) # EmptyObjText
            THEN Removed(l, LUnset(l.obj, kp))
            ELSE Done(l.fs, Bool(FALSE), FALSE)
    IN Then(LoadKeyValues(f, o, fault))

\* unsetSync without the test for the empty document
KvUnsetSync_Always(f, o, kp, fault) ==
    LET l == LoadKeyValuesSync(f, o, fault)
    IN IF ~l.ok THEN Failed(l.fs, l.err)
       ELSE LET u == LUnset(l.obj, kp)
            IN IF Truthy(kp) /\ u.ret
               THEN Saved(SaveKeyValuesSync(l.fs, o, u.v, fault), Bool(TRUE))
               ELSE Saved(SaveKeyValuesSync(l.fs, o, EmptyObj, fault), Bool(TRUE))

\* unsetSync saving the document as it was loaded
KvUnsetSync_Unchanged(f, o, kp, fault) ==
    LET l == LoadKeyValuesSync(f, o, fault)
    IN IF ~l.ok THEN Failed(l.fs, l.err)
       ELSE IF JSONStringify(l.obj, 0) # EmptyObjText
       THEN LET u == LUnset(l.obj, kp)
            IN IF Truthy(kp) /\ u.ret
               THEN Saved(SaveKeyValuesSync(l.fs, o, l.obj, fault), Bool(TRUE))
               ELSE Saved(SaveKeyValuesSync(l.fs, o, EmptyObj, fault), Bool(TRUE))
       ELSE Done(l.fs, Bool(FALSE), FALSE)

KvUnsetSync(f, o, kp, fault) ==
    LET Removed(l, u) ==
            IF Truthy(kp) /\ u.ret
            THEN Saved(SaveKeyValuesSync(l.fs, o, u.v, fault), Bool(TRUE))
            ELSE Saved(SaveKeyValuesSync(l.fs, o, EmptyObj, fault), Bool(TRUE))
        Then(l) ==
            IF ~l.ok THEN Failed(l.fs, l.err)
            ELSE IF JSONStringify(l.obj, 0) # EmptyObjText
            THEN Removed(l, LUnset(l.obj, kp))
            ELSE Done(l.fs, Bool(FALSE), FALSE)
    IN Then(LoadKeyValuesSync(f, o, fault))

----------------------------------------------------------------------------
(* Configuration and the location of the file.  A string is the sequence  *)
(* of its pieces, a blank being a piece of its own; an optional string is *)
(* given or undefined.                                                     *)

Given(s) == [given |-> TRUE, s |-> s]
Undefined == [given |-> FALSE, s |-> <<>>]

DEFAULT_DIR_NAME == <<"localdb">>
DEFAULT_FILE_NAME == <<"keyvalues.json">>

defaultOptions ==
    [atomicSave |-> TRUE, dir |-> Given(DEFAULT_DIR_NAME), fileName |-> DEFAULT_FILE_NAME,
     prettify |-> FALSE, numSpaces |-> 2]

\* String.prototype.trim
RECURSIVE TrimStart(_)
TrimStart(s) == IF s # <<>> /\ Head(s) = " " THEN TrimStart(Tail(s)) ELSE s

RECURSIVE TrimEnd(_)
TrimEnd(s) ==
    IF s # <<>> /\ s[Len(s)] = " " THEN TrimEnd(SubSeq(s, 1, Len(s) - 1)) ELSE s

Trim(s) == TrimEnd(TrimStart(s))

\* path.resolve of a relative name: below the working directory
PathResolve(name) == <<"/", "cwd", "/">> \o name

\* path.join of a directory and a name, normalised: "./" adds nothing
PathJoin(dir, name) ==
    IF dir = <<".", "/">> THEN name ELSE dir \o <<"/">> \o name

GetJsonDirPath(o) ==
    LET dir == Trim(IF o.dir.given THEN o.dir.s ELSE PathResolve(DEFAULT_DIR_NAME))
    IN IF dir = <<>> THEN <<".", "/">> ELSE dir

GetJsonFilePath(o) ==
    LET dir == GetJsonDirPath(o)
        trimmed == Trim(o.fileName)
        fileName == IF trimmed = <<>> THEN DEFAULT_FILE_NAME ELSE trimmed
    IN PathJoin(dir, fileName)

\* An option of the constructor's argument is passed or left out (v is then
\* of no account)
Passed(v) == [set |-> TRUE, v |-> v]
LeftOut(v) == [set |-> FALSE, v |-> v]

\* The constructor: { ...defaultOptions, ...options }
Construct(p) ==
    [atomicSave |-> IF p.atomicSave.set THEN p.atomicSave.v ELSE defaultOptions.atomicSave,
     dir |-> IF p.dir.set THEN p.dir.v ELSE defaultOptions.dir,
     fileName |-> IF p.fileName.set THEN p.fileName.v ELSE defaultOptions.fileName,
     prettify |-> IF p.prettify.set THEN p.prettify.v ELSE defaultOptions.prettify,
     numSpaces |-> defaultOptions.numSpaces]

\* file(): the path the jsonHelper computes from the options it holds
KvFile(o) == [t |-> "path", p |-> GetJsonFilePath(o)]

----------------------------------------------------------------------------
(* Inputs *)

\* The segments the calls address.  The key "b" occurs in documents and
\* values only, so that every call has a sibling it does not address.
Seg == {"a", "1"}

SegSeqs == UNION {[1..m -> Seg] : m \in 1..MaxPathLen}

\* The string that names the same location: "a.a", "a[1]"
RECURSIVE Dotted(_)
Dotted(p) ==
    IF Len(p) = 1 THEN <<p[1]>>
    ELSE <<p[1]>> \o (IF IsIndex(p[2]) THEN <<"[", p[2], "]">> \o Tail(Dotted(Tail(p)))
                      ELSE <<".">> \o Dotted(Tail(p)))

\* The locations the calls address: the root keys and what is below the
\* root key that is a name
Locations == {q \in SegSeqs : Len(q) = 1 \/ ~IsIndex(q[1])}

\* Every location as an array of segments, and as a string where the string
\* has more than one segment
KeyPaths == {ArrPath(p) : p \in Locations}
              \cup {StrPath(Dotted(p)) : p \in {q \in Locations : Len(q) > 1}}

Values == {Str("xy"), Null, Obj(<<KV("b", Arr(<<Num(2)>>))>>)}

WholeDocs == {EmptyObj, Obj(<<KV("a", Num(1)), KV("b", Num(2))>>)}

\* The facade instances; all are constructed with the same options
Instances == {1, 2}

Options == {defaultOptions,
            [atomicSave |-> FALSE, dir |-> Given(<<"data">>), fileName |-> <<"kv.json">>,
             prettify |-> TRUE, numSpaces |-> 4]}

\* The documents a file holds at the start
InitDocs ==
    {EmptyObj,
     Obj(<<KV("a", Obj(<<KV("a", Num(1)), KV("b", Str("xy"))>>)), KV("b", Num(2))>>),
     Obj(<<KV("a", Arr(<<Num(1), Num(2)>>)), KV("b", Str("x"))>>),
     Obj(<<KV("a", Str("xy")), KV("b", Null)>>)}

\* File contents that are not JSON: a trailing comma, a truncated document
Malformed == {<<P("{"), S("a"), P(":"), N(1), P(","), P("}")>>,
              <<P("{"), S("a"), P(":")>>}

InitFs ==
    {[dir |-> FALSE, exists |-> FALSE, text |-> <<>>],
     [dir |-> TRUE, exists |-> FALSE, text |-> <<>>],
     [dir |-> TRUE, exists |-> TRUE, text |-> <<>>]}
    \cup {[dir |-> TRUE, exists |-> TRUE, text |-> m] : m \in Malformed}
    \cup {[dir |-> TRUE, exists |-> TRUE, text |-> JSONStringify(d, 0)] : d \in InitDocs}

LoadFaults == {"none", "EACCES", "plain"}

----------------------------------------------------------------------------
(* The state machine: one action per facade method, calls are serial *)

\* The document a load reads from f (the file is created empty when absent)
TextOf(f) == IF f.exists /\ f.text # <<>> THEN f.text ELSE EmptyObjText
Readable(f) == JSONParse(TextOf(f)).ok
DocOf(f) == JSONParse(TextOf(f)).v

NoCall == [op |-> "none", inst |-> 0, nargs |-> 0, kp |-> NoPath, val |-> Undef,
           fault |-> "none", ok |-> TRUE, ret |-> Undef, err |-> NoErr, saved |-> FALSE]

Call(op, inst, nargs, kp, val, fault, r) ==
    [op |-> op, inst |-> inst, nargs |-> nargs, kp |-> kp, val |-> val, fault |-> fault,
     ok |-> r.ok, ret |-> r.ret, err |-> r.err, saved |-> r.saved]

NoSave == [by |-> 0, text |-> <<>>]

\* The non-blocking calls that can be in progress at once
Tasks == {1, 2}

\* A call in progress: the method and its arguments, the step it is at, the
\* text it read, the document it loaded and the one it mutated, the text it
\* is saving and for which save (the creation of a missing file or the save
\* of the call), and its outcome.
IdleTask ==
    [op |-> "none", pc |-> "idle", nargs |-> 0, kp |-> NoPath, val |-> Undef,
     overlap |-> FALSE, read |-> FALSE, data |-> <<>>, obj |-> Undef, mutated |-> Undef,
     why |-> "none", content |-> <<>>, trace |-> <<>>,
     ok |-> TRUE, ret |-> Undef, err |-> NoErr]

\* No call in progress.  issued are the texts of the saves begun, committed
\* the text of the save that completed last, crashed whether the process
\* has stopped.
NoRun == [task |-> [i \in Tasks |-> IdleTask], issued |-> {}, committed |-> <<>>,
          crashed |-> FALSE]

Init ==
    /\ fs \in InitFs
    /\ \E o \in Options : config = [i \in Instances |-> o]
    /\ options = config
    /\ run = NoRun
    /\ last = NoCall
    /\ prev = fs
    /\ written = [tracked |-> Readable(fs) /\ DocOf(fs) = EmptyObj, paths |-> {}]
    /\ lastSave = NoSave
    /\ steps = 0

\* The bookkeeping every call shares: the file system and the outcome of the
\* call, the paths written so far, the most recent write.
Complete(op, inst, nargs, kp, val, fault, r) ==
    /\ fs' = r.fs
    /\ last' = Call(op, inst, nargs, kp, val, fault, r)
    /\ prev' = fs
    /\ written' = IF ~r.saved THEN written
                  ELSE IF op \in {"set", "setSync"} /\ nargs = 2
                  THEN (IF written.tracked
                        THEN [written EXCEPT !.paths = @ \cup {CastPath(kp)}]
                        ELSE written)
                  ELSE [tracked |-> DocOf(r.fs) = EmptyObj, paths |-> {}]
    /\ lastSave' = IF r.saved \/ r.fs # fs THEN [by |-> inst, text |-> r.fs.text]
                   ELSE lastSave
    /\ steps' = steps + 1
    /\ UNCHANGED <<config, options, run>>

Set(inst, nargs, kp, val, fault) ==
    /\ steps < MaxSteps
    /\ Complete("set", inst, nargs, kp, val, fault, KvSet(fs, config[inst], nargs, kp, val, fault))

SetSync(inst, nargs, kp, val, fault) ==
    /\ steps < MaxSteps
    /\ Complete("setSync", inst, nargs, kp, val, fault,
                KvSetSync(fs, config[inst], nargs, kp, val, fault))

Get(inst, kp, fault) ==
    /\ steps < MaxSteps
    /\ Complete("get", inst, 1, kp, Undef, fault, KvGet(fs, config[inst], kp, fault))

GetSync(inst, kp, fault) ==
    /\ steps < MaxSteps
    /\ Complete("getSync", inst, 1, kp, Undef, fault, KvGetSync(fs, config[inst], kp, fault))

Has(inst, kp, fault) ==
    /\ steps < MaxSteps
    /\ Complete("has", inst, 1, kp, Undef, fault, KvHas(fs, config[inst], kp, fault))

HasSync(inst, kp, fault) ==
    /\ steps < MaxSteps
    /\ Complete("hasSync", inst, 1, kp, Undef, fault, KvHasSync(fs, config[inst], kp, fault))

Unset(inst, kp, fault) ==
    /\ steps < MaxSteps
    /\ Complete("unset", inst, 1, kp, Undef, fault, KvUnset(fs, config[inst], kp, fault))

UnsetSync(inst, kp, fault) ==
    /\ steps < MaxSteps
    /\ Complete("unsetSync", inst, 1, kp, Undef, fault, KvUnsetSync(fs, config[inst], kp, fault))

\* Serial calls on one facade instance
Next ==
    \/ \E kp \in KeyPaths, v \in Values : Set(1, 2, kp, v, "none")
    \/ \E v \in WholeDocs : Set(1, 1, NoPath, v, "none")
    \/ \E kp \in KeyPaths, v \in Values : SetSync(1, 2, kp, v, "none")
    \/ \E v \in WholeDocs : SetSync(1, 1, NoPath, v, "none")
    \/ \E kp \in KeyPaths \cup {NoPath} : Get(1, kp, "none")
    \/ \E fault \in LoadFaults : Get(1, NoPath, fault)
    \/ \E kp \in KeyPaths \cup {NoPath} : GetSync(1, kp, "none")
    \/ \E fault \in LoadFaults : GetSync(1, NoPath, fault)
    \/ \E kp \in KeyPaths : Has(1, kp, "none")
    \/ \E kp \in KeyPaths : HasSync(1, kp, "none")
    \/ \E kp \in KeyPaths \cup {NoPath} : Unset(1, kp, "none")
    \/ \E kp \in KeyPaths \cup {NoPath} : UnsetSync(1, kp, "none")

\* Serial calls on two facade instances that share the file
SharedPaths == {ArrPath(<<"a">>), StrPath(<<"a", ".", "a">>)}
SharedValues == {Str("xy"), Obj(<<KV("b", Arr(<<Num(2)>>))>>)}

NextShared ==
    \E inst \in Instances :
        \/ \E kp \in SharedPaths, v \in SharedValues : Set(inst, 2, kp, v, "none")
        \/ \E v \in WholeDocs : Set(inst, 1, NoPath, v, "none")
        \/ \E kp \in SharedPaths, v \in SharedValues : SetSync(inst, 2, kp, v, "none")
        \/ \E v \in WholeDocs : SetSync(inst, 1, NoPath, v, "none")
        \/ \E kp \in SharedPaths \cup {NoPath} : Get(inst, kp, "none")
        \/ \E kp \in SharedPaths \cup {NoPath} : GetSync(inst, kp, "none")
        \/ \E kp \in SharedPaths : Has(inst, kp, "none")
        \/ \E kp \in SharedPaths : HasSync(inst, kp, "none")
        \/ \E kp \in SharedPaths \cup {NoPath} : Unset(inst, kp, "none")
        \/ \E kp \in SharedPaths \cup {NoPath} : UnsetSync(inst, kp, "none")

SpecShared == Init /\ [][NextShared]_vars

Spec == Init /\ [][Next]_vars

----------------------------------------------------------------------------
(* Serial calls with a key path that is empty: "" or [] *)

EmptyPaths == {StrPath(<<>>), ArrPath(<<>>)}

EmptyPathValues == {Str("xy"), Obj(<<KV("b", Num(2))>>)}

NextEmptyPath ==
    \/ \E kp \in EmptyPaths, v \in EmptyPathValues : Set(1, 2, kp, v, "none")
    \/ \E kp \in EmptyPaths, v \in EmptyPathValues : SetSync(1, 2, kp, v, "none")
    \/ \E kp \in EmptyPaths \cup {NoPath} : Get(1, kp, "none")
    \/ \E kp \in EmptyPaths \cup {NoPath} : GetSync(1, kp, "none")
    \/ \E kp \in EmptyPaths : Has(1, kp, "none")
    \/ \E kp \in EmptyPaths : HasSync(1, kp, "none")
    \/ \E kp \in EmptyPaths \cup {NoPath} : Unset(1, kp, "none")
    \/ \E kp \in EmptyPaths \cup {NoPath} : UnsetSync(1, kp, "none")

SpecEmptyPath == Init /\ [][NextEmptyPath]_vars

----------------------------------------------------------------------------
(* The persistence gateway called directly, with file system requests that *)
(* fail                                                                    *)

GatewayFaults == {"none", "EACCES", "statDir", "mkdir", "open", "write", "read"}

GatewayDocs == {EmptyObj, Obj(<<KV("a", Num(1)), KV("b", Num(2))>>),
                Obj(<<KV("a", Arr(<<Str("xy")>>))>>)}

LoadOutcome(l) == [fs |-> l.fs, ok |-> l.ok, ret |-> l.obj, err |-> l.err, saved |-> FALSE]
SaveOutcome(s) == [fs |-> s.fs, ok |-> s.ok, ret |-> Undef, err |-> s.err, saved |-> TRUE]

Load(fault) ==
    /\ steps < MaxSteps
    /\ Complete("loadKeyValues", 1, 0, NoPath, Undef, fault,
                LoadOutcome(LoadKeyValues(fs, config[1], fault)))

LoadSync(fault) ==
    /\ steps < MaxSteps
    /\ Complete("loadKeyValuesSync", 1, 0, NoPath, Undef, fault,
                LoadOutcome(LoadKeyValuesSync(fs, config[1], fault)))

Save(obj, fault) ==
    /\ steps < MaxSteps
    /\ Complete("saveKeyValues", 1, 1, NoPath, obj, fault,
                SaveOutcome(SaveKeyValues(fs, config[1], obj, fault)))

SaveSync(obj, fault) ==
    /\ steps < MaxSteps
    /\ Complete("saveKeyValuesSync", 1, 1, NoPath, obj, fault,
                SaveOutcome(SaveKeyValuesSync(fs, config[1], obj, fault)))

NextGateway ==
    \/ \E fault \in GatewayFaults : Load(fault)
    \/ \E fault \in GatewayFaults : LoadSync(fault)
    \/ \E obj \in GatewayDocs, fault \in GatewayFaults : Save(obj, fault)
    \/ \E obj \in GatewayDocs, fault \in GatewayFaults : SaveSync(obj, fault)

SpecGateway == Init /\ [][NextGateway]_vars

----------------------------------------------------------------------------
(* Facade calls in which a file system request fails *)

CallFaults == GatewayFaults \cup {"plain"}

FaultPath == StrPath(<<"a", ".", "a">>)

NextFaults ==
    \/ \E fault \in CallFaults : Set(1, 2, FaultPath, Str("xy"), fault)
    \/ \E fault \in CallFaults : SetSync(1, 2, FaultPath, Str("xy"), fault)
    \/ \E fault \in CallFaults : Has(1, FaultPath, fault)
    \/ \E fault \in CallFaults : HasSync(1, FaultPath, fault)
    \/ \E kp \in {FaultPath, NoPath}, fault \in CallFaults : Unset(1, kp, fault)
    \/ \E kp \in {FaultPath, NoPath}, fault \in CallFaults : UnsetSync(1, kp, fault)

SpecFaults == Init /\ [][NextFaults]_vars

----------------------------------------------------------------------------
(* Saves under every combination of atomicSave, prettify and numSpaces *)

Indentations == {0, 2, 4, 12}

FormatOptions ==
    {[defaultOptions EXCEPT !.atomicSave = a, !.prettify = p, !.numSpaces = n] :
        a \in BOOLEAN, p \in BOOLEAN, n \in Indentations}

InitFormat ==
    /\ fs \in InitFs
    /\ \E o \in FormatOptions : config = [i \in Instances |-> o]
    /\ options = config
    /\ run = NoRun
    /\ last = NoCall
    /\ prev = fs
    /\ written = [tracked |-> Readable(fs) /\ DocOf(fs) = EmptyObj, paths |-> {}]
    /\ lastSave = NoSave
    /\ steps = 0

NextFormat ==
    \/ \E obj \in GatewayDocs : Save(obj, "none")
    \/ \E obj \in GatewayDocs : SaveSync(obj, "none")
    \/ \E obj \in GatewayDocs : Set(1, 1, NoPath, obj, "none")
    \/ \E obj \in GatewayDocs : SetSync(1, 1, NoPath, obj, "none")

SpecFormat == InitFormat /\ [][NextFormat]_vars

----------------------------------------------------------------------------
(* The configuration of one facade: construction, file() and resetOptions() *)

Dirs == {LeftOut(Undefined), Passed(Undefined), Passed(Given(<<>>)), Passed(Given(<<" ">>)),
         Passed(Given(<<"data">>)), Passed(Given(<<" ", "data", " ">>))}

FileNames == {LeftOut(<<>>), Passed(<<>>), Passed(<<" ">>), Passed(<<"kv.json">>),
              Passed(<<" ", "kv.json">>)}

\* The arguments of the constructor
PartialOptions ==
    [atomicSave : {LeftOut(FALSE), Passed(FALSE)}, dir : Dirs, fileName : FileNames,
     prettify : {LeftOut(FALSE), Passed(TRUE)}]

OptionsFs ==
    {[dir |-> FALSE, exists |-> FALSE, text |-> <<>>],
     [dir |-> TRUE, exists |-> TRUE,
      text |-> JSONStringify(Obj(<<KV("b", Num(2))>>), 0)]}

InitOptions ==
    /\ fs \in OptionsFs
    /\ \E p \in PartialOptions : config = [i \in Instances |-> Construct(p)]
    /\ options = config
    /\ run = NoRun
    /\ last = NoCall
    /\ prev = fs
    /\ written = [tracked |-> FALSE, paths |-> {}]
    /\ lastSave = NoSave
    /\ steps = 0

\* The calls that touch no file: the file system and the notes on it stay
Answer(op, inst, ret) ==
    /\ last' = [NoCall EXCEPT !.op = op, !.inst = inst, !.ret = ret]
    /\ prev' = fs
    /\ steps' = steps + 1
    /\ UNCHANGED <<fs, config, written, lastSave, run>>

\* file() making sure of the file before it answers
File_Ensuring(inst) ==
    /\ steps < MaxSteps
    /\ Complete("file", inst, 0, NoPath, Undef, "none",
                Done(EnsureJsonFileSync(fs, config[inst], "none").fs, KvFile(config[inst]), FALSE))

File(inst) ==
    /\ steps < MaxSteps
    /\ Answer("file", inst, KvFile(config[inst]))
    /\ UNCHANGED options

\* resetOptions(): this.options = { ...defaultOptions }; the jsonHelper keeps
\* the object it was constructed with
ResetOptions(inst) ==
    /\ steps < MaxSteps
    /\ Answer("resetOptions", inst, Undef)
    /\ options' = [options EXCEPT ![inst] = defaultOptions]

NextOptions ==
    \/ File(1)
    \/ ResetOptions(1)
    \/ Set(1, 2, ArrPath(<<"a">>), Arr(<<Num(2)>>), "none")
    \/ SetSync(1, 1, NoPath, Obj(<<KV("a", Num(1))>>), "none")
    \/ Get(1, NoPath, "none")
    \/ GetSync(1, NoPath, "none")

SpecOptions == InitOptions /\ [][NextOptions]_vars

----------------------------------------------------------------------------
(* Non-blocking calls step by step: every file system request of a call is *)
(* a step, and the steps of the calls in progress interleave               *)

AsyncPaths == {ArrPath(<<"a">>), StrPath(<<"a", ".", "a">>), StrPath(<<"a", "[", "1", "]">>)}
AsyncValues == {Str("xy"), Obj(<<KV("b", Arr(<<Num(2)>>))>>)}
AsyncDocs == {Obj(<<KV("a", Num(1)), KV("b", Num(2))>>)}

AsyncFs ==
    {[dir |-> FALSE, exists |-> FALSE, text |-> <<>>],
     [dir |-> TRUE, exists |-> FALSE, text |-> <<>>],
     [dir |-> TRUE, exists |-> TRUE, text |-> JSONStringify(EmptyObj, 0)],
     [dir |-> TRUE, exists |-> TRUE,
      text |-> JSONStringify(Obj(<<KV("a", Obj(<<KV("a", Num(1)), KV("b", Str("xy"))>>)),
                                   KV("b", Num(2))>>), 0)]}

InitAsync ==
    /\ fs \in AsyncFs
    /\ \E o \in Options : config = [i \in Instances |-> o]
    /\ options = config
    /\ run = NoRun
    /\ last = NoCall
    /\ prev = fs
    /\ written = [tracked |-> FALSE, paths |-> {}]
    /\ lastSave = NoSave
    /\ steps = 0

\* The start of saveKeyValues(obj): the text is made, then the directory is
\* looked up
BeginSave(t, o, obj, why) ==
    [t EXCEPT !.why = why, !.content = JSONStringify(obj, NumSpaces(o)),
              !.pc = "statDir", !.trace = @ \o <<why>>]

Resolved(t, ret) == [t EXCEPT !.pc = "done", !.ok = TRUE, !.ret = ret]
Rejected(t, err) == [t EXCEPT !.pc = "failed", !.ok = FALSE, !.err = err]

\* set(keyPath, value) after its load has resolved: _set, then saveKeyValues
SetContinuation(t, o) ==
    LET m == LSet(t.obj, t.kp, t.val)
    IN BeginSave([t EXCEPT !.mutated = m, !.trace = @ \o <<"mutate">>], o, m, "save")

\* unset(keyPath) after its load has resolved
UnsetContinuation(t, o) ==
    IF JSONStringify(t.obj, 0) # EmptyObjText
    THEN LET u == LUnset(t.obj, t.kp)
         IN IF Truthy(t.kp) /\ u.ret
            THEN BeginSave([t EXCEPT !.mutated = u.v, !.ret = Bool(TRUE),
                                     !.trace = @ \o <<"mutate">>], o, u.v, "save")
            ELSE BeginSave([t EXCEPT !.mutated = EmptyObj, !.ret = Bool(TRUE),
                                     !.trace = @ \o <<"mutate">>], o, EmptyObj, "save")
    ELSE Resolved(t, Bool(FALSE))

\* What a call does when its load has resolved with t.obj
Continuation(t, o) ==
    CASE t.op = "set" -> SetContinuation(t, o)
      [] t.op = "unset" -> UnsetContinuation(t, o)
      [] t.op = "get" -> Resolved(t, IF Truthy(t.kp) THEN LGet(t.obj, t.kp) ELSE t.obj)
      [] t.op = "has" -> Resolved(t, Bool(LHas(t.obj, t.kp)))

Busy(t) == t.pc \notin {"idle", "done", "failed"}
Saving(t) == t.pc \in {"statDir", "mkdir", "open", "write"}

AsyncFrame == UNCHANGED <<config, options, last, prev, written, lastSave, steps>>

\* A call is made: it runs up to its first file system request
Start(i, op, nargs, kp, val) ==
    /\ ~run.crashed
    /\ run.task[i].pc = "idle"
    /\ LET t == [IdleTask EXCEPT !.op = op, !.nargs = nargs, !.kp = kp, !.val = val,
                                  !.pc = "stat",
                                  !.overlap = \E j \in Tasks : Busy(run.task[j])]
           t1 == IF op = "set" /\ nargs = 1 THEN BeginSave(t, config[i], val, "save") ELSE t
       IN run' = [run EXCEPT !.task[i] = t1,
                             !.issued = IF Saving(t1) THEN @ \cup {t1.content} ELSE @]
    /\ UNCHANGED fs
    /\ AsyncFrame

\* ensureJsonFile: fs.stat of the file answers; ENOENT starts saveKeyValues({})
StatFile(i) ==
    /\ ~run.crashed
    /\ run.task[i].pc = "stat"
    /\ LET t == run.task[i]
           t1 == IF fs.exists THEN [t EXCEPT !.pc = "read"]
                 ELSE BeginSave(t, config[i], EmptyObj, "create")
       IN run' = [run EXCEPT !.task[i] = t1,
                             !.issued = IF Saving(t1) THEN @ \cup {t1.content} ELSE @]
    /\ UNCHANGED fs
    /\ AsyncFrame

\* ensureJsonDir: fs.stat of the directory answers
StatDir(i) ==
    /\ ~run.crashed
    /\ run.task[i].pc = "statDir"
    /\ run' = [run EXCEPT !.task[i].pc = IF fs.dir THEN "open" ELSE "mkdir"]
    /\ UNCHANGED fs
    /\ AsyncFrame

\* ensureJsonDir: fs.mkdir(dirPath, {recursive: true})
Mkdir(i) ==
    /\ ~run.crashed
    /\ run.task[i].pc = "mkdir"
    /\ fs' = [fs EXCEPT !.dir = TRUE]
    /\ run' = [run EXCEPT !.task[i].pc = "open"]
    /\ AsyncFrame

\* saveKeyValues: the write begins
Open(i) ==
    /\ ~run.crashed
    /\ run.task[i].pc = "open"
    /\ fs' = WriteOpen(fs, config[i])
    /\ run' = [run EXCEPT !.task[i].pc = "write"]
    /\ AsyncFrame

\* saveKeyValues: the write completes; the save of a missing file is
\* followed by the read, the save of the call resolves the call
Write(i) ==
    /\ ~run.crashed
    /\ run.task[i].pc = "write"
    /\ fs' = WriteCommit(fs, config[i], run.task[i].content)
    /\ LET t == run.task[i]
       IN run' = [run EXCEPT !.task[i] = IF t.why = "create" THEN [t EXCEPT !.pc = "read"]
                                         ELSE Resolved(t, t.ret),
                             !.committed = t.content]
    /\ AsyncFrame

\* loadKeyValues: fs.readFile answers, the text is parsed and the call goes
\* on to its next file system request
Read(i) ==
    /\ ~run.crashed
    /\ run.task[i].pc = "read"
    /\ LET t == run.task[i]
           data == fs.text
           r == JSONParse(IF data # <<>> THEN data ELSE EmptyObjText)
           t0 == [t EXCEPT !.read = TRUE, !.data = data, !.trace = @ \o <<"load">>]
           t1 == IF r.ok THEN Continuation([t0 EXCEPT !.obj = r.v], config[i])
                 ELSE Rejected(t0, IF t.op = "get" THEN WrapGetError(SyntaxError)
                                   ELSE SyntaxError)
       IN run' = [run EXCEPT !.task[i] = t1,
                             !.issued = IF Saving(t1) THEN @ \cup {t1.content} ELSE @]
    /\ UNCHANGED fs
    /\ AsyncFrame

\* The process stops
Crash ==
    /\ ~run.crashed
    /\ \E i \in Tasks : Busy(run.task[i])
    /\ run' = [run EXCEPT !.crashed = TRUE]
    /\ UNCHANGED fs
    /\ AsyncFrame

NextAsync ==
    \/ \E i \in Tasks, kp \in AsyncPaths, v \in AsyncValues : Start(i, "set", 2, kp, v)
    \/ \E i \in Tasks, v \in AsyncDocs : Start(i, "set", 1, NoPath, v)
    \/ \E i \in Tasks, kp \in AsyncPaths \cup {NoPath} : Start(i, "unset", 1, kp, Undef)
    \/ \E i \in Tasks : Start(i, "get", 1, NoPath, Undef)
    \/ \E i \in Tasks : StatFile(i)
    \/ \E i \in Tasks : StatDir(i)
    \/ \E i \in Tasks : Mkdir(i)
    \/ \E i \in Tasks : Open(i)
    \/ \E i \in Tasks : Write(i)
    \/ \E i \in Tasks : Read(i)
    \/ Crash

SpecAsync == InitAsync /\ [][NextAsync]_vars

----------------------------------------------------------------------------
(* Non-blocking calls whose file system requests succeed or fail, each     *)
(* request completing in the end                                            *)

\* The error of the request a call is waiting for
ErrorOfRequest(pc) ==
    CASE pc = "stat" -> EACCES
      [] pc = "statDir" -> FsError("stat")
      [] OTHER -> FsError(pc)

Requests == {"stat", "statDir", "mkdir", "open", "write", "read"}

\* The callback of the failed request is dropped: the call neither resolves
\* nor rejects
Fails_Dropped(i) ==
    /\ ~run.crashed
    /\ run.task[i].pc \in Requests
    /\ run' = [run EXCEPT !.task[i].pc = "lost"]
    /\ UNCHANGED fs
    /\ AsyncFrame

\* The request the call is waiting for completes with an error other than
\* ENOENT: every callback rejects with it, and get wraps it
Fails(i) ==
    /\ ~run.crashed
    /\ run.task[i].pc \in Requests
    /\ LET t == run.task[i]
           err == ErrorOfRequest(t.pc)
       IN run' = [run EXCEPT !.task[i] =
                      Rejected(t, IF t.op = "get" THEN WrapGetError(err) ELSE err)]
    /\ UNCHANGED fs
    /\ AsyncFrame

LivePath == ArrPath(<<"a">>)
LiveValue == Str("xy")

\* The request call i is waiting for completes, with success or failure
Completes(i) ==
    \/ Fails(i)
    \/ StatFile(i)
    \/ StatDir(i)
    \/ Mkdir(i)
    \/ Open(i)
    \/ Write(i)
    \/ Read(i)

NextLive ==
    \/ \E i \in Tasks : Start(i, "set", 2, LivePath, LiveValue)
    \/ \E i \in Tasks, v \in AsyncDocs : Start(i, "set", 1, NoPath, v)
    \/ \E i \in Tasks, kp \in {LivePath, NoPath} : Start(i, "unset", 1, kp, Undef)
    \/ \E i \in Tasks : Start(i, "get", 1, NoPath, Undef)
    \/ \E i \in Tasks : Start(i, "has", 1, LivePath, Undef)
    \/ \E i \in Tasks : StatFile(i)
    \/ \E i \in Tasks : StatDir(i)
    \/ \E i \in Tasks : Mkdir(i)
    \/ \E i \in Tasks : Open(i)
    \/ \E i \in Tasks : Write(i)
    \/ \E i \in Tasks : Read(i)
    \/ \E i \in Tasks : Fails(i)

\* Every file system request of a call completes in the end
SpecLive ==
    /\ InitAsync
    /\ [][NextLive]_vars
    /\ \A i \in Tasks : WF_vars(Completes(i))

----------------------------------------------------------------------------
(* Vocabulary of the properties *)

IsSetCall(c) == c.op \in {"set", "setSync"}
IsGetCall(c) == c.op \in {"get", "getSync"}
IsHasCall(c) == c.op \in {"has", "hasSync"}
IsUnsetCall(c) == c.op \in {"unset", "unsetSync"}

\* toEqual: the same value, whatever the order of the keys
RECURSIVE DeepEq(_, _)
DeepEq(x, y) ==
    IF x.t # y.t THEN FALSE
    ELSE CASE x.t = "obj" ->
                /\ Keys(x.e) = Keys(y.e)
                /\ \A k \in Keys(x.e) : DeepEq(Lookup(x.e, k), Lookup(y.e, k))
           [] x.t = "arr" ->
                /\ Len(x.a) = Len(y.a)
                /\ \A i \in DOMAIN x.a : DeepEq(x.a[i], y.a[i])
           [] OTHER -> x = y

\* What has(kp) and get(kp) answer in the current state, in both forms
HasNow(kp) == {KvHas(fs, config[1], kp, "none"), KvHasSync(fs, config[1], kp, "none")}
GetNow(kp) == {KvGet(fs, config[1], kp, "none"), KvGetSync(fs, config[1], kp, "none")}

\* The paths the properties probe: also the sibling key "b" and index "0"
ProbeSeg == Seg \cup {"b", "0"}
ProbePaths == UNION {[1..m -> ProbeSeg] : m \in 1..MaxPathLen}

IsPrefix(p, q) == Len(p) <= Len(q) /\ SubSeq(q, 1, Len(p)) = p
Diverge(p, q) == ~IsPrefix(p, q) /\ ~IsPrefix(q, p)

----------------------------------------------------------------------------
(* Properties *)

\* C1: after set(P, V) or setSync(P, V) with a non-empty key path has
\* completed, has(P) returns true and get(P) returns a value deep-equal to V.
C1_RoundTrip ==
    (IsSetCall(last) /\ last.nargs = 2 /\ last.ok)
        => /\ \A h \in HasNow(last.kp) : h.ok /\ h.ret = Bool(TRUE)
           /\ \A g \in GetNow(last.kp) : g.ok /\ DeepEq(g.ret, last.val)

\* C2: after set(V) with a single mapping argument, get() returns exactly V
\* and no key of the prior document that V lacks is still present.
C2_WholeReplace ==
    (IsSetCall(last) /\ last.nargs = 1 /\ last.ok)
        => /\ \A g \in GetNow(NoPath) : g.ok /\ DeepEq(g.ret, last.val)
           /\ Readable(prev) /\ DocOf(prev).t = "obj" =>
                \A k \in Keys(DocOf(prev).e) \ Keys(last.val.e) :
                    \A h \in HasNow(ArrPath(<<k>>)) : h.ok /\ h.ret = Bool(FALSE)

C2_Witness ==
    /\ IsSetCall(last) /\ last.nargs = 1 /\ last.ok
    /\ Readable(prev) /\ DocOf(prev).t = "obj"
    /\ Keys(DocOf(prev).e) \ Keys(last.val.e) # {}
    /\ last.val # EmptyObj

\* The document the call loaded: the file as it was, created empty if absent
Loaded == DocOf(prev)

\* The loaded document serialises to something other than "{}"
LoadedNonEmpty == JSONStringify(Loaded, 0) # EmptyObjText

UnsetAllDone == IsUnsetCall(last) /\ last.kp = NoPath /\ last.ok
UnsetPathDone == IsUnsetCall(last) /\ last.kp # NoPath /\ last.ok

\* C3: unset() without a path on a non-empty document returns true and
\* leaves get() equal to {}; on an already-empty document it returns false
\* and writes nothing; a second consecutive unset() returns false.
C3_UnsetAllStep ==
    (IsUnsetCall(last') /\ last'.kp = NoPath /\ last'.ok /\ steps' = steps + 1)
        => /\ JSONStringify(DocOf(fs), 0) # EmptyObjText
                => /\ last'.ret = Bool(TRUE)
                   /\ KvGet(fs', config[1], NoPath, "none").ret = EmptyObj
                   /\ KvGetSync(fs', config[1], NoPath, "none").ret = EmptyObj
           /\ JSONStringify(DocOf(fs), 0) = EmptyObjText
                => /\ last'.ret = Bool(FALSE)
                   /\ ~last'.saved
                   /\ fs.exists => fs' = fs
           /\ UnsetAllDone => last'.ret = Bool(FALSE)

C5_GoneAfterUnset ==
    (UnsetPathDone /\ LHas(Loaded, last.kp))
        => /\ \A h \in HasNow(last.kp) : h.ok /\ h.ret = Bool(FALSE)
           /\ \A g \in GetNow(last.kp) : g.ok /\ g.ret = Undef

\* The container that holds the last segment of the path
ParentOf(doc, kp) ==
    LET path == CastPath(kp)
    IN IF Len(path) = 1 THEN doc ELSE BaseGet(doc, SubSeq(path, 1, Len(path) - 1), 0)

\* C5 amended: after unset(P) of a path that exists and ends in a key of a
\* mapping, has(P) is false and get(P) undefined; when P ends in an index of
\* a sequence the element becomes null: has(P) stays true, get(P) is null.
C5_GoneOrNull ==
    (UnsetPathDone /\ LHas(Loaded, last.kp))
        => /\ ParentOf(Loaded, last.kp).t = "obj"
                => /\ \A h \in HasNow(last.kp) : h.ok /\ h.ret = Bool(FALSE)
                   /\ \A g \in GetNow(last.kp) : g.ok /\ g.ret = Undef
           /\ ParentOf(Loaded, last.kp).t = "arr"
                => /\ \A h \in HasNow(last.kp) : h.ok /\ h.ret = Bool(TRUE)
                   /\ \A g \in GetNow(last.kp) : g.ok /\ g.ret = Null

C5_Witness ==
    /\ UnsetPathDone /\ LHas(Loaded, last.kp)
    /\ ParentOf(Loaded, last.kp).t = "obj"
    /\ Len(CastPath(last.kp)) = 2
    /\ KvHasSync(fs, config[1], last.kp, "none").ret = Bool(FALSE)

\* C6: unset(P) changes nothing but the last segment of P: every location
\* that is neither P, nor beneath P, nor a container of P, reads the same
\* after the call as before it, whether or not the removal succeeded.
C6_UnsetFrame ==
    UnsetPathDone
        => \A q \in ProbePaths :
               Diverge(CastPath(last.kp), q)
                   => /\ LHas(DocOf(fs), ArrPath(q)) = LHas(Loaded, ArrPath(q))
                      /\ DeepEq(LGet(DocOf(fs), ArrPath(q)), LGet(Loaded, ArrPath(q)))

\* q is an index of a sequence below an index that a call wrote
BelowWrittenIndex(q) ==
    /\ IsIndex(q[Len(q)])
    /\ ParentOf(DocOf(fs), ArrPath(q)).t = "arr"
    /\ \E w \in written.paths :
          /\ Len(w) >= Len(q)
          /\ SubSeq(w, 1, Len(q) - 1) = SubSeq(q, 1, Len(q) - 1)
          /\ IsIndex(w[Len(q)])
          /\ IdxVal[q[Len(q)]] < IdxVal[w[Len(q)]]

\* No call wrote q, a container of q or a value that holds q
Unwritten(q) == \A w \in written.paths : Diverge(w, q)

\* C7 as stated: in a document built from the empty document by
\* set(path, value) calls, every path that no call wrote, that is no
\* container of a written path and that is not inside a written value is
\* absent: has is false and get undefined, also for lower sequence indices.
C7_UnwrittenAbsent ==
    written.tracked
        => \A q \in ProbePaths :
               Unwritten(q)
                   => /\ \A h \in HasNow(ArrPath(q)) : h.ok /\ h.ret = Bool(FALSE)
                      /\ \A g \in GetNow(ArrPath(q)) : g.ok /\ g.ret = Undef

\* C7 amended: such a path is absent, except an index of a sequence below an
\* index that was written: the sequence holds null there, has is true and
\* get returns null.
C7_UnwrittenAbsentOrNull ==
    written.tracked
        => \A q \in ProbePaths :
               Unwritten(q)
                   => IF BelowWrittenIndex(q)
                      THEN /\ \A h \in HasNow(ArrPath(q)) : h.ok /\ h.ret = Bool(TRUE)
                           /\ \A g \in GetNow(ArrPath(q)) : g.ok /\ g.ret = Null
                      ELSE /\ \A h \in HasNow(ArrPath(q)) : h.ok /\ h.ret = Bool(FALSE)
                           /\ \A g \in GetNow(ArrPath(q)) : g.ok /\ g.ret = Undef

C7_Witness ==
    /\ written.tracked
    /\ Cardinality(written.paths) = 2
    /\ \E q \in ProbePaths : Unwritten(q) /\ BelowWrittenIndex(q)
    /\ \E q \in ProbePaths : Unwritten(q) /\ ~BelowWrittenIndex(q) /\ Len(q) = 2

\* What a read of the text last written answers
AnswerFrom(text, c) ==
    LET doc == JSONParse(text).v
    IN IF IsHasCall(c) THEN Bool(LHas(doc, c.kp))
       ELSE IF Truthy(c.kp) THEN LGet(doc, c.kp) ELSE doc

\* C8: under serial use every get and has observes the document written by
\* the most recently completed save to the file, also when another facade
\* instance with the same configuration made that save.
C8_ReadsSeeLastSave ==
    ((IsGetCall(last) \/ IsHasCall(last)) /\ last.ok /\ lastSave # NoSave)
        => last.ret = AnswerFrom(lastSave.text, last)

C8_Witness ==
    /\ IsGetCall(last) /\ last.ok /\ last.inst = 2
    /\ lastSave.by = 1
    /\ last.ret \notin {Undef, EmptyObj}

\* C9: when the file content is not valid JSON, get, getSync, has and
\* hasSync fail, and the failed call leaves the file content unchanged.
C9_MalformedFails ==
    /\ ((IsGetCall(last) \/ IsHasCall(last)) /\ prev.exists /\ ~Readable(prev))
          => ~last.ok /\ fs = prev
    /\ (fs.exists /\ ~Readable(fs))
          => \A kp \in KeyPaths \cup {NoPath} :
                 \A r \in GetNow(kp) \cup HasNow(kp) : ~r.ok /\ r.fs = fs

C9_Witness ==
    /\ IsHasCall(last) /\ ~last.ok /\ last.fault = "none"
    /\ prev.exists /\ ~Readable(prev) /\ fs = prev /\ steps = 2

\* The error the load of the last call failed with
LoadCause ==
    IF last.op = "get" THEN LoadKeyValues(prev, config[last.inst], last.fault).err
    ELSE LoadKeyValuesSync(prev, config[last.inst], last.fault).err

\* C10: whenever loading fails, get and getSync fail with an error whose
\* message is "Failed to get value: " followed by the message of the cause,
\* or "Failed to get value: Unknown error" when the cause is not an Error.
C10_GetErrorShape ==
    (IsGetCall(last) /\ ~last.ok)
        => /\ last.err.isError
           /\ last.err.msg = IF LoadCause.isError
                             THEN <<"Failed to get value: ">> \o LoadCause.msg
                             ELSE <<"Failed to get value: ", "Unknown error">>

----------------------------------------------------------------------------
(* Properties of the non-blocking calls step by step *)

\* The complete texts the file can hold: the text it had at the start and
\* the texts of the saves begun
CompleteTexts == (IF prev.exists THEN {prev.text} ELSE {}) \cup run.issued

\* C11: with atomicSave = true, whatever step the saves in progress are at,
\* a load of the file reads the complete text the file had before or the
\* complete text of a save, never an empty or partly written file.
C11_AtomicReads ==
    \A i \in Tasks :
        (config[i].atomicSave /\ run.task[i].read)
            => run.task[i].data \in CompleteTexts

C11_Witness ==
    \E i, j \in Tasks :
        /\ config[i].atomicSave
        /\ run.task[i].op = "get" /\ run.task[i].read /\ run.task[i].overlap
        /\ run.task[j].pc = "write" /\ run.task[j].why = "save"
        /\ prev.exists /\ run.task[i].data = prev.text
        /\ run.task[j].content # prev.text

SaveInProgress == \E i \in Tasks : Saving(run.task[i])

\* C12 as stated: with atomicSave = true, when the process stops at a step
\* of a save the file exists and holds the complete text it had before or
\* the complete text of a save; it is never missing, empty or partial.
C12_CrashKeepsFile ==
    (run.crashed /\ config[1].atomicSave /\ SaveInProgress)
        => fs.exists /\ fs.text \in CompleteTexts

\* C12 amended: the file holds the complete text it had before or the
\* complete text of a save, and it is missing only when it was missing
\* before the save began.
C12_CrashKeepsOrAbsent ==
    (run.crashed /\ config[1].atomicSave /\ SaveInProgress)
        => IF fs.exists THEN fs.text \in CompleteTexts ELSE ~prev.exists

C12_Witness ==
    /\ run.crashed /\ config[1].atomicSave
    /\ \E i \in Tasks : /\ run.task[i].pc = "write" /\ run.task[i].why = "save"
                        /\ run.task[i].content # fs.text
    /\ prev.exists /\ fs.exists /\ fs.text = prev.text

\* Two set(path, value) calls that overlapped have both resolved
BothSetsDone ==
    /\ \A i \in Tasks : /\ run.task[i].op = "set" /\ run.task[i].nargs = 2
                        /\ run.task[i].pc = "done"
    /\ \E i \in Tasks : run.task[i].overlap

\* a written over b from offset 0: what is left of b follows a
Overlay(a, b) == a \o SubSeq(b, Len(a) + 1, Len(b))

\* C13 as stated: when two set(path, value) calls on the same file overlap,
\* after both have completed the file holds exactly the document passed to
\* the save that completed last; no third content is possible.
C13_LastSaveWins ==
    BothSetsDone
        => /\ fs.text = run.committed
           /\ \E i \in Tasks : run.committed = run.task[i].content

\* C13 amended: so it is with atomicSave = true; with atomicSave = false the
\* file holds the text of one of the two saves, or the text of one followed
\* by what is left of the longer text of the other.
C13_LastSaveWinsIfAtomic ==
    BothSetsDone
        => /\ \E i \in Tasks : run.committed = run.task[i].content
           /\ config[1].atomicSave => fs.text = run.committed
           /\ ~config[1].atomicSave
                => \E i, j \in Tasks :
                       fs.text \in {run.task[i].content,
                                    Overlay(run.task[i].content, run.task[j].content)}

C13_Witness ==
    /\ BothSetsDone /\ config[1].atomicSave
    /\ run.task[1].content # run.task[2].content
    /\ fs.text = run.task[1].content
    /\ run.task[1].data = run.task[2].data
    /\ ~LHas(DocOf(fs), run.task[2].kp) \/ LGet(DocOf(fs), run.task[2].kp) # run.task[2].val

\* The call has loaded, mutated and issued its own save
SaveIssued(t) == t.op \in {"set", "unset"} /\ t.kp # NoPath /\ t.why = "save"

\* The steps of the call so far, without the creation of a missing file
CallTrace(t) == SelectSeq(t.trace, LAMBDA e : e # "create")

\* The loaded document with the path mutation of the call applied
Mutation(t) ==
    IF t.op = "set" THEN LSet(t.obj, t.kp, t.val) ELSE LUnset(t.obj, t.kp).v

\* Within a set(path, value) or unset(path) call the load completes before
\* the mutation and the mutation before the save is issued
C14_Order ==
    \A i \in Tasks :
        LET t == run.task[i]
        IN /\ SaveIssued(t) => t.read /\ CallTrace(t) = <<"load", "mutate", "save">>
           /\ (t.op \in {"set", "unset"} /\ t.kp # NoPath /\ ~SaveIssued(t))
                 => CallTrace(t) \in {<<>>, <<"load">>}

\* C14: within every set(path, value) or unset(path) call the load completes
\* before the mutation and the mutation before the save is issued, and the
\* document handed to save is the one loaded and mutated in that same call.
C14_LoadMutateSave ==
    \A i \in Tasks :
        LET t == run.task[i]
        IN SaveIssued(t)
              => /\ t.read /\ CallTrace(t) = <<"load", "mutate", "save">>
                 /\ t.obj = JSONParse(IF t.data # <<>> THEN t.data ELSE EmptyObjText).v
                 /\ t.content = JSONStringify(Mutation(t), NumSpaces(config[i]))

----------------------------------------------------------------------------
(* Properties of the two forms of the methods *)

\* C15: from the same file, each operation in its blocking and in its
\* non-blocking form gives the same return value, the same success or
\* failure with the same error, and the same file content afterwards; the
\* same then holds of every serial sequence of operations.
C15_SameInBothForms ==
    /\ \A kp \in KeyPaths \cup {NoPath}, fault \in LoadFaults :
           KvGet(fs, config[1], kp, fault) = KvGetSync(fs, config[1], kp, fault)
    /\ \A kp \in KeyPaths :
           KvHas(fs, config[1], kp, "none") = KvHasSync(fs, config[1], kp, "none")
    /\ \A kp \in KeyPaths, v \in Values :
           KvSet(fs, config[1], 2, kp, v, "none") = KvSetSync(fs, config[1], 2, kp, v, "none")
    /\ \A v \in WholeDocs :
           KvSet(fs, config[1], 1, NoPath, v, "none") = KvSetSync(fs, config[1], 1, NoPath, v, "none")
    /\ \A kp \in KeyPaths \cup {NoPath} :
           KvUnset(fs, config[1], kp, "none") = KvUnsetSync(fs, config[1], kp, "none")

----------------------------------------------------------------------------
(* Properties of the persistence gateway *)

\* The last call was a get, has, set(path, value) or unset, in either form,
\* made while the file was absent
FirstUseOfAbsent ==
    /\ ~prev.exists
    /\ last.fault = "none"
    /\ \/ IsGetCall(last) \/ IsHasCall(last) \/ IsUnsetCall(last)
       \/ IsSetCall(last) /\ last.nargs = 2

\* C16: when the directory or the file is absent, a get, has,
\* set(path, value) or unset creates the directory and the file with content
\* {} before it reads: the call succeeds and works on the empty document,
\* and get() returns {}.
C16_CreatesWhenAbsent ==
    FirstUseOfAbsent
        => /\ last.ok
           /\ fs.dir /\ fs.exists
           /\ ~last.saved => fs.text = EmptyObjText
           /\ IsGetCall(last) =>
                 last.ret = IF Truthy(last.kp) THEN LGet(EmptyObj, last.kp) ELSE EmptyObj
           /\ IsHasCall(last) => last.ret = Bool(LHas(EmptyObj, last.kp))
           /\ IsUnsetCall(last) => last.ret = Bool(FALSE) /\ ~last.saved
           /\ IsSetCall(last) =>
                 fs.text = JSONStringify(LSet(EmptyObj, last.kp, last.val),
                                         NumSpaces(config[last.inst]))

C16_Witness ==
    /\ FirstUseOfAbsent /\ ~prev.dir /\ steps = 1
    /\ last.op = "get" /\ last.kp = NoPath /\ last.ok /\ last.ret = EmptyObj
    /\ fs = [dir |-> TRUE, exists |-> TRUE, text |-> EmptyObjText]

IsLoadCall(c) == c.op \in {"loadKeyValues", "loadKeyValuesSync"}
IsSaveCall(c) == c.op \in {"saveKeyValues", "saveKeyValuesSync"}

\* The call went through a save: it is one, or it is a load of a missing file
ThroughSave == IsSaveCall(last) \/ (IsLoadCall(last) /\ ~prev.exists)

\* The request that the fault of the last call names was made by the call
RequestMade ==
    CASE last.fault = "EACCES" -> IsLoadCall(last)
      [] last.fault = "read" -> IsLoadCall(last)
      [] last.fault = "mkdir" -> ThroughSave /\ ~prev.dir
      [] last.fault \in {"statDir", "open", "write"} -> ThroughSave
      [] OTHER -> FALSE

\* The error the request fails with
RequestError ==
    CASE last.fault = "EACCES" -> EACCES
      [] last.fault = "statDir" -> FsError("stat")
      [] OTHER -> FsError(last.fault)

\* The document file is as it was before the call
FileUntouched == fs.exists = prev.exists /\ fs.text = prev.text

\* C17 as stated: a stat, mkdir, read or write error other than ENOENT makes
\* the load or save, in either form, fail with that same error and without
\* any write to the document file.
C17_ErrorsPropagate ==
    ((IsLoadCall(last) \/ IsSaveCall(last)) /\ RequestMade)
        => /\ ~last.ok /\ last.err = RequestError
           /\ FileUntouched

\* C17 amended: the call fails with that same error and nothing is written
\* after the error; what the call had done before the error stays: the load
\* of a missing file has created it with {} when its read fails, and with
\* atomicSave = false a write that fails after the file was opened leaves
\* the file truncated.
C17_ErrorsPropagateNoLaterWrite ==
    ((IsLoadCall(last) \/ IsSaveCall(last)) /\ RequestMade)
        => /\ ~last.ok /\ last.err = RequestError
           /\ IF last.fault = "read" /\ ~prev.exists
              THEN fs.exists /\ fs.text = EmptyObjText
              ELSE IF last.fault = "write" /\ ~config[1].atomicSave
              THEN fs.exists /\ fs.text = <<>>
              ELSE FileUntouched

C17_Witness ==
    /\ IsSaveCall(last) /\ last.fault = "statDir" /\ ~last.ok
    /\ last.err = FsError("stat")
    /\ prev.exists /\ prev.text # <<>> /\ fs = prev
    /\ last.val # DocOf(prev)

----------------------------------------------------------------------------
(* Properties of the configuration *)

\* The directory C18 names for the options o: options.dir, trimmed, when it
\* is not blank; the default directory otherwise, as a relative or as an
\* absolute path
ClaimedDirs(o) ==
    IF o.dir.given /\ Trim(o.dir.s) # <<>> THEN {Trim(o.dir.s)}
    ELSE {DEFAULT_DIR_NAME, PathResolve(DEFAULT_DIR_NAME)}

ClaimedFileName(o) ==
    IF Trim(o.fileName) # <<>> THEN Trim(o.fileName) ELSE DEFAULT_FILE_NAME

\* C18: file() returns join(D, F), D being options.dir when it is not blank
\* and the default directory 'localdb' when dir is absent, empty or blank,
\* F being options.fileName when it is not blank and 'keyvalues.json'
\* otherwise.
C18_FilePath ==
    last.op = "file"
        => \E d \in ClaimedDirs(config[last.inst]) :
               last.ret.p = PathJoin(d, ClaimedFileName(config[last.inst]))

\* C19: after resetOptions() the configuration that drives the later
\* operations is the default one: file() returns the default path and the
\* loads and saves use the default directory, file name, atomicity and
\* formatting.  (this.options is the default exactly from then on, or when
\* the facade was constructed with the defaults.)
C19_ResetDrivesAll ==
    \A i \in {1} :
        options[i] = defaultOptions
            => /\ config[i] = defaultOptions
               /\ KvFile(config[i]).p = PathJoin(DEFAULT_DIR_NAME, DEFAULT_FILE_NAME)
               /\ (last.op = "file" /\ last.inst = i)
                     => last.ret.p = PathJoin(DEFAULT_DIR_NAME, DEFAULT_FILE_NAME)
               /\ (IsSetCall(last) /\ last.inst = i /\ last.ok)
                     => fs.text = JSONStringify(DocOf(fs), NumSpaces(defaultOptions))

----------------------------------------------------------------------------
(* Properties of the empty key path *)

\* What the last call would have answered, and left on disk, had it been
\* made without a key path
AsWithoutPath ==
    CASE last.op = "get" -> KvGet(prev, config[1], NoPath, "none")
      [] last.op = "getSync" -> KvGetSync(prev, config[1], NoPath, "none")
      [] last.op = "unset" -> KvUnset(prev, config[1], NoPath, "none")
      [] last.op = "unsetSync" -> KvUnsetSync(prev, config[1], NoPath, "none")

\* The document has a key that is the empty string
HasEmptyKey(f) == Readable(f) /\ LHas(DocOf(f), ArrPath(<<"">>))

\* C20: a key path that is empty ("" or []) is treated like an absent key
\* path: get returns the whole document, unset clears the whole document,
\* and no operation resolves the empty path as a segment.
C20_EmptyPathIsRoot ==
    (last.kp \in EmptyPaths /\ Readable(prev))
        => /\ (IsGetCall(last) \/ IsUnsetCall(last))
                 => /\ last.ok = AsWithoutPath.ok
                    /\ last.ret = AsWithoutPath.ret
                    /\ fs = AsWithoutPath.fs
           /\ IsSetCall(last) => (HasEmptyKey(fs) <=> HasEmptyKey(prev))
           /\ (IsHasCall(last) /\ last.ok) => last.ret = Bool(FALSE)

----------------------------------------------------------------------------
(* The document on disk *)

\* The file holds JSON text whose root is a mapping
HoldsMapping(f) ==
    /\ f.exists
    /\ f.text # <<>>
    /\ JSONParse(f.text).ok
    /\ JSONParse(f.text).v.t = "obj"

\* The file is absent or holds a mapping
StartsWell(f) == ~f.exists \/ HoldsMapping(f)

\* C21: starting from an absent file or a file holding a JSON object, and
\* with whole-document set given only mappings, after every operation that
\* completes the file holds valid JSON whose root is a mapping (and after
\* one that fails the file is as acceptable a start as before).
C21_AlwaysMapping ==
    (last.op # "none" /\ StartsWell(prev))
        => /\ last.ok => HoldsMapping(fs)
           /\ StartsWell(fs)

\* A set at a key path stored a string in a file that was absent
C21_Witness ==
    /\ last.op \in {"set", "setSync"} /\ last.nargs = 2 /\ last.ok
    /\ last.val = Str("xy")
    /\ ~prev.exists
    /\ HoldsMapping(fs)

----------------------------------------------------------------------------
(* The facade as a refinement of the path operations *)

\* The path operation a set or unset call stands for, applied to a document:
\* write, replace-all, remove, clear-all
Resolver(doc, c) ==
    IF IsSetCall(c) THEN (IF c.nargs = 1 THEN c.val ELSE LSet(doc, c.kp, c.val))
    ELSE IF Truthy(c.kp) THEN LUnset(doc, c.kp).v ELSE EmptyObj

\* A document as it is read back after being saved
ReadBack(doc) == JSONParse(JSONStringify(doc, 0)).v

\* C22: after every set and unset of a serial sequence the document on disk
\* is the document before the call with the corresponding path operation
\* (write, remove, replace-all, clear-all) applied to it.
C22_RefinesResolver ==
    ((IsSetCall(last) \/ IsUnsetCall(last)) /\ last.ok /\ Readable(prev))
        => DocOf(fs) = ReadBack(Resolver(DocOf(prev), last))

----------------------------------------------------------------------------
(* The text of a save *)

\* The last call saved the document it was given
SavedGiven ==
    /\ last.op \in {"saveKeyValues", "saveKeyValuesSync", "set", "setSync"}
    /\ last.nargs = 1
    /\ last.ok

\* The JSON text of a document with every level indented by n more spaces,
\* and the text without white space
Indented(doc, n) == Stringify(doc, n, 0)
Compact(doc) == Stringify(doc, 0, 0)

\* C23 as stated: the text written by a save is the document serialized
\* with numSpaces spaces of indentation when prettify is set, and the
\* compact text otherwise, in both forms and whatever atomicSave is.
C23_TextAsConfigured ==
    SavedGiven
        => fs.text = IF config[1].prettify THEN Indented(last.val, config[1].numSpaces)
                     ELSE Compact(last.val)

\* C23, amended: the indentation is numSpaces spaces up to 10 and 10 spaces
\* beyond; with numSpaces 0 or without prettify the text is compact.
C23_TextAsConfiguredUpTo10 ==
    SavedGiven
        => fs.text = IF config[1].prettify
                     THEN Indented(last.val, IF config[1].numSpaces > 10 THEN 10
                                             ELSE config[1].numSpaces)
                     ELSE Compact(last.val)

\* A nested document was saved in place with 12 spaces asked for, over a
\* longer text
C23_Witness ==
    /\ SavedGiven
    /\ last.op = "saveKeyValuesSync"
    /\ config[1].prettify /\ config[1].numSpaces = 12 /\ ~config[1].atomicSave
    /\ last.val = Obj(<<KV("a", Arr(<<Str("xy")>>))>>)
    /\ Len(prev.text) > Len(fs.text)

----------------------------------------------------------------------------
(* The effect of set at a key path *)

SetPathDone == IsSetCall(last) /\ last.nargs = 2 /\ last.ok /\ Readable(prev)

\* q is a key of a mapping or an index of a sequence of the document
IsKeyOf(doc, q) == IsObject(ParentOf(doc, ArrPath(q))) /\ LHas(doc, ArrPath(q))

\* C24: set(P, V) with a non-empty path changes only the location P and the
\* containers it creates along P: every key of the document that is neither
\* on P nor beneath P is still there with the value it had.
C24_SetFrame ==
    SetPathDone
        => LET before == Loaded
               after == DocOf(fs)
           IN \A q \in ProbePaths :
                  (Diverge(CastPath(last.kp), q) /\ IsKeyOf(before, q))
                      => /\ LHas(after, ArrPath(q))
                         /\ DeepEq(LGet(after, ArrPath(q)), LGet(before, ArrPath(q)))

\* A key was added to a mapping that has another key, below the root
C24_Witness ==
    /\ SetPathDone
    /\ CastPath(last.kp) = <<"a", "1">>
    /\ IsKeyOf(Loaded, <<"a", "b">>) /\ IsKeyOf(Loaded, <<"b">>)
    /\ ~LHas(Loaded, last.kp)
    /\ LGet(DocOf(fs), last.kp) = last.val
    /\ LGet(DocOf(fs), ArrPath(<<"a", "b">>)) = Str("xy")

\* What was at P before the call: a mapping, a sequence or a scalar
Before == LGet(Loaded, last.kp)

\* The keys a value has, as has answers them: the keys of a mapping, the
\* indices of a sequence or of a string
KeysOf(v) == {k \in ProbeSeg : HasOwn(v, k)}

\* C25: set(P, V) replaces whatever was at P, a mapping, a scalar or a
\* sequence, by V without merging: afterwards get(P) equals V and no key of
\* the previous value at P survives unless V has it.
C25_ReplacesAtPath ==
    (SetPathDone /\ LHas(Loaded, last.kp))
        => /\ \A g \in GetNow(last.kp) : g.ok /\ DeepEq(g.ret, last.val)
           /\ \A k \in KeysOf(Before) \ KeysOf(last.val) :
                  \A h \in HasNow(ArrPath(CastPath(last.kp) \o <<k>>)) :
                      h.ok /\ h.ret = Bool(FALSE)

\* A mapping with the keys a and b was replaced by a mapping with the key b
C25_Witness ==
    /\ SetPathDone /\ LHas(Loaded, last.kp)
    /\ CastPath(last.kp) = <<"a">>
    /\ Before.t = "obj" /\ KeysOf(Before) = {"a", "b"}
    /\ last.val = Obj(<<KV("b", Arr(<<Num(2)>>))>>)
    /\ KvHasSync(fs, config[1], ArrPath(<<"a", "a">>), "none").ret = Bool(FALSE)

\* The lengths of the proper prefixes of P that hold a value that is not a
\* container in the loaded document
ScalarPrefixes ==
    LET path == CastPath(last.kp)
    IN {n \in 1..(Len(path) - 1) :
           /\ LHas(Loaded, ArrPath(SubSeq(path, 1, n)))
           /\ ~IsObject(LGet(Loaded, ArrPath(SubSeq(path, 1, n))))}

\* The shortest of them
ScalarPrefix ==
    LET n == CHOOSE n \in ScalarPrefixes : \A m \in ScalarPrefixes : n <= m
    IN SubSeq(CastPath(last.kp), 1, n)

SetThroughScalar ==
    IsSetCall(last) /\ last.nargs = 2 /\ Readable(prev) /\ ScalarPrefixes # {}

\* C26 as stated: set(P, V) where a proper prefix of P holds a scalar does
\* not throw and is a no-op: the scalar and the rest of the document are
\* unchanged.
C26_ScalarPrefixNoOp ==
    SetThroughScalar => last.ok /\ DocOf(fs) = Loaded

\* C26, amended: the call does not throw and replaces the scalar by a new
\* container, a sequence when the next segment is an index and a mapping
\* otherwise, in which P holds V; the rest of the document is unchanged.
C26_ScalarPrefixReplaced ==
    SetThroughScalar
        => LET before == Loaded
               after == DocOf(fs)
               scalar == ScalarPrefix
           IN /\ last.ok
              /\ LGet(after, ArrPath(scalar)).t
                    = IF IsIndex(CastPath(last.kp)[Len(scalar) + 1]) THEN "arr" ELSE "obj"
              /\ DeepEq(LGet(after, last.kp), last.val)
              /\ \A q \in ProbePaths :
                     Diverge(scalar, q)
                         => /\ LHas(after, ArrPath(q)) = LHas(before, ArrPath(q))
                            /\ DeepEq(LGet(after, ArrPath(q)), LGet(before, ArrPath(q)))

\* A string at a was replaced by a sequence, beside a key b
C26_Witness ==
    /\ SetThroughScalar /\ last.ok
    /\ LGet(Loaded, ArrPath(<<"a">>)) = Str("xy")
    /\ LHas(Loaded, ArrPath(<<"b">>))
    /\ CastPath(last.kp) = <<"a", "1">>
    /\ LGet(DocOf(fs), ArrPath(<<"a">>)).t = "arr"

----------------------------------------------------------------------------
(* null and absence *)

\* C27: after set(P, null), has(P) returns true and get(P) returns null;
\* an absent path is told apart from it: has returns false and get returns
\* undefined.
C27_NullIsPresent ==
    /\ (IsSetCall(last) /\ last.nargs = 2 /\ last.val = Null /\ last.ok)
           => /\ \A h \in HasNow(last.kp) : h.ok /\ h.ret = Bool(TRUE)
              /\ \A g \in GetNow(last.kp) : g.ok /\ g.ret = Null
    /\ Readable(fs)
           => \A q \in ProbePaths :
                  ~LHas(DocOf(fs), ArrPath(q))
                      => /\ \A h \in HasNow(ArrPath(q)) : h.ok /\ h.ret = Bool(FALSE)
                         /\ \A g \in GetNow(ArrPath(q)) : g.ok /\ g.ret = Undef

----------------------------------------------------------------------------
(* set with the document as its only argument *)

WholeSetCalled == IsSetCall(last) /\ last.nargs = 1

\* C28: set(V) never loads or parses the file: it saves V directly, so it
\* succeeds and the document is V afterwards, also when the file held
\* malformed JSON or was absent.
C28_WholeSetNeverLoads ==
    WholeSetCalled
        => /\ last.ok /\ last.saved
           /\ fs.dir /\ fs.exists
           /\ fs.text = JSONStringify(last.val, NumSpaces(config[1]))
           /\ \A g \in GetNow(NoPath) : g.ok /\ DeepEq(g.ret, last.val)

\* A document was set over a file that held malformed JSON
C28_Witness ==
    /\ WholeSetCalled /\ last.ok
    /\ prev.exists /\ prev.text \in Malformed
    /\ last.val # EmptyObj
    /\ DocOf(fs) = last.val

----------------------------------------------------------------------------
(* Failures of the load inside set, unset and has *)

\* The load the last call began with, as it went
LoadOfCall ==
    IF last.op \in {"set", "has", "unset"} THEN LoadKeyValues(prev, config[1], last.fault)
    ELSE LoadKeyValuesSync(prev, config[1], last.fault)

\* The last call was set(path, value), unset or has, and its load failed
LoadFailedInCall ==
    /\ (IsSetCall(last) /\ last.nargs = 2) \/ IsUnsetCall(last) \/ IsHasCall(last)
    /\ ~LoadOfCall.ok

\* C29 as stated: when loading fails inside set(path, value), unset or has,
\* the call fails with the error of the load, not wrapped, no save is
\* issued and the file is as it was before the call.
C29_LoadFailurePassesThrough ==
    LoadFailedInCall
        => /\ ~last.ok
           /\ last.err = LoadOfCall.err
           /\ ~last.saved
           /\ fs = prev

\* C29, amended: the call fails with the error of the load, not wrapped,
\* and issues no save of its own; a file that existed is as it was before
\* the call, while for a missing file the load may have created the
\* directory and the file before it failed: the file then holds {}, or
\* nothing when the creating write failed in place.
C29_LoadFailurePassesThroughExisting ==
    LoadFailedInCall
        => /\ ~last.ok
           /\ last.err = LoadOfCall.err
           /\ ~last.saved
           /\ prev.exists => fs = prev
           /\ ~prev.exists
                 => /\ fs.text \in {<<>>, EmptyObjText}
                    /\ (fs.exists /\ fs.text = <<>>) => ~config[1].atomicSave
                    /\ fs.text = EmptyObjText => last.fault = "read"

\* has failed reading a file that was missing and that its load created
C29_Witness ==
    /\ LoadFailedInCall
    /\ last.op = "has"
    /\ last.fault = "read"
    /\ ~prev.exists /\ ~prev.dir
    /\ last.err = FsError("read")
    /\ fs.exists /\ fs.text = EmptyObjText

----------------------------------------------------------------------------
(* The write function of a save *)

\* The last call was a save of the gateway; the save as it went
SaveCalled == last.op \in {"saveKeyValues", "saveKeyValuesSync"}

SaveOfCall ==
    IF last.op = "saveKeyValues" THEN SaveKeyValues(prev, config[1], last.val, last.fault)
    ELSE SaveKeyValuesSync(prev, config[1], last.val, last.fault)

\* The save called the one write function that atomicSave selects
OneWriteAsConfigured ==
    /\ Len(SaveOfCall.via) = 1
    /\ SaveOfCall.via[1] = "writeFileAtomic" <=> config[1].atomicSave
    /\ SaveOfCall.via[1] = "writeFile" <=> ~config[1].atomicSave

\* The directory of the file is there, or could be made, in the last call
DirEnsured == EnsureJsonDir(prev, last.fault).ok

\* C30 as stated: each save issues exactly one write of the file, the atomic
\* one exactly when atomicSave is true and the direct one exactly when it
\* is false; never both and never neither.
C30_OneWrite == SaveCalled => OneWriteAsConfigured

\* C30, amended: so does each save whose directory is there or can be made;
\* a save that fails on the directory issues no write.
C30_OneWriteIfDirEnsured ==
    SaveCalled
        => /\ DirEnsured => OneWriteAsConfigured
           /\ ~DirEnsured => SaveOfCall.via = <<>> /\ ~last.ok /\ fs = prev

\* A save with atomicSave made the directory and wrote the file
C30_Witness ==
    /\ SaveCalled /\ last.ok
    /\ config[1].atomicSave
    /\ ~prev.dir
    /\ SaveOfCall.via = <<"writeFileAtomic">>
    /\ fs.text = JSONStringify(last.val, NumSpaces(config[1]))

----------------------------------------------------------------------------
(* The calls that leave the disk alone *)

\* C31: file() and resetOptions() never create or modify the directory or
\* the file: the disk is the same before and after the call, also when
\* neither directory nor file exists.
C31_NoDiskAccess ==
    last.op \in {"file", "resetOptions"} => fs = prev /\ ~last.saved

\* file() was called after resetOptions() with neither directory nor file
C31_Witness ==
    /\ last.op = "file"
    /\ ~fs.dir /\ ~fs.exists
    /\ options[1] = defaultOptions /\ config[1] # defaultOptions
    /\ last.ret = KvFile(config[1])

----------------------------------------------------------------------------
(* The load of an empty file *)

\* The last call was a load of the gateway, made without a failing request
\* on a file that exists and is empty
LoadedEmptyFile ==
    /\ last.op \in {"loadKeyValues", "loadKeyValuesSync"}
    /\ last.fault = "none"
    /\ prev.exists /\ prev.text = <<>>

\* C32: a file that exists with empty content loads as the empty document
\* {} in both forms of the load, without error, and the load does not
\* rewrite the file.
C32_EmptyFileLoadsEmpty ==
    LoadedEmptyFile
        => /\ last.ok /\ last.err = NoErr
           /\ last.ret = EmptyObj
           /\ fs = prev /\ fs.text = <<>>

\* The non-blocking load read the empty file that a failed write in place
\* had left
C32_Witness ==
    /\ LoadedEmptyFile
    /\ last.op = "loadKeyValues"
    /\ last.ret = EmptyObj
    /\ ~config[1].atomicSave
    /\ steps = 2
    /\ lastSave.text = <<>>

----------------------------------------------------------------------------
(* The containers set makes and the ones it reuses *)

\* C33: where set(P, V) meets a missing intermediate segment it makes a
\* sequence if the following segment is a non-negative integer index and a
\* mapping otherwise; the containers that exist on P are reused and keep
\* their other members.  The document saved is the one so made.
C33_ContainersAlongPath ==
    SetPathDone
        => LET before == Loaded
               made == LSet(before, last.kp, last.val)
               path == CastPath(last.kp)
           IN /\ DocOf(fs) = ReadBack(made)
              /\ \A n \in 1..(Len(path) - 1) :
                     LET q == ArrPath(SubSeq(path, 1, n))
                         old == LGet(before, q)
                         new == LGet(made, q)
                     IN /\ ~LHas(before, q)
                              => new.t = IF IsIndex(path[n + 1]) THEN "arr" ELSE "obj"
                        /\ IsObject(old)
                              => /\ new.t = old.t
                                 /\ \A k \in KeysOf(old) \ {path[n + 1]} :
                                        PropGet(new, k) = PropGet(old, k)

\* A sequence was made at a for the path a[1] beside the key b
C33_Witness ==
    /\ SetPathDone
    /\ last.kp = StrPath(<<"a", "[", "1", "]">>)
    /\ ~LHas(Loaded, ArrPath(<<"a">>)) /\ LHas(Loaded, ArrPath(<<"b">>))
    /\ LGet(DocOf(fs), ArrPath(<<"a">>)).t = "arr"
    /\ LHas(DocOf(fs), ArrPath(<<"b">>))

----------------------------------------------------------------------------
(* What unset answers *)

UnsetDone == IsUnsetCall(last) /\ last.ok

\* The load of the call found no file and made it: directory and file are
\* there and the file holds the empty document
CreatedEmpty == fs.dir /\ fs.exists /\ fs.text = EmptyObjText

\* C35 as stated: every unset call, with or without path and in either
\* form, returns true if and only if it performed a save; a call that
\* returns false has written nothing and leaves the file content unchanged.
C35_FalseWritesNothing ==
    UnsetDone
        => /\ last.ret = Bool(last.saved)
           /\ last.ret = Bool(FALSE) => fs = prev

\* C35 amended: every unset call, with or without path and in either form,
\* returns true if and only if it performed a save; a call that returns
\* false leaves an existing file as it was, and where the file was missing
\* the load of the call has created it holding {}.
C35_FalseLeavesExistingFile ==
    UnsetDone
        => /\ last.ret = Bool(last.saved)
           /\ last.ret = Bool(FALSE)
                => /\ prev.exists => fs = prev
                   /\ ~prev.exists => CreatedEmpty

\* unset answered false on a missing file, which is there afterwards
C35_Witness ==
    /\ UnsetDone /\ last.ret = Bool(FALSE) /\ ~last.saved
    /\ ~prev.exists /\ ~prev.dir
    /\ CreatedEmpty

----------------------------------------------------------------------------
(* Overlapping non-blocking calls and the creation of a missing file *)

\* The write of {} that call i began because its stat found no file
\* completes in this step
CreateCommits(i) ==
    /\ run.task[i].pc = "write" /\ run.task[i].why = "create"
    /\ run'.task[i].pc = "read"

\* Call j has resolved after its own save
SavedAndDone(t) == t.pc = "done" /\ t.why = "save"

\* C36: the write of the empty document that a non-blocking operation issues
\* because it found the file absent never overwrites a file that another
\* overlapping operation has written in the meantime; a get that overlaps a
\* set(path, value) cannot erase the value that set stored.
C36_CreateKeepsWritten ==
    [][\A i, j \in Tasks :
          (i # j /\ CreateCommits(i) /\ SavedAndDone(run.task[j]))
              => fs'.text = run.task[j].content]_vars

\* The load of a get() or set(path, value) call gave the empty document
ReadAsEmpty(t) ==
    /\ t.op = "get" \/ (t.op = "set" /\ t.nargs = 2)
    /\ t.read /\ t.obj = EmptyObj

EmptyTexts == {<<>>, EmptyObjText}

\* C37: with atomicSave = false, a non-blocking get() or set(path, value)
\* whose load overlaps a save in progress never reads the file as the empty
\* document unless the content before or after that save was itself empty;
\* so an overlapping set(path, value) cannot write back a document that has
\* lost every other key.
C37_NoEmptyReadInPlace ==
    \A i \in Tasks :
        (~config[i].atomicSave /\ ReadAsEmpty(run.task[i]))
            => CompleteTexts \cap EmptyTexts # {}

Settled(t) == t.pc \in {"done", "failed"}

\* How many times the call began the creation of a missing file
Creations(t) == Len(SelectSeq(t.trace, LAMBDA e : e = "create"))

\* C38: provided every file system request completes in the end, with
\* success or failure, every non-blocking operation (get, has, set, unset)
\* resolves or rejects in the end and does so exactly once: no operation
\* waits forever, begins its creation of the file a second time, or settles
\* twice.
C38_SettlesOnce ==
    /\ \A i \in Tasks : Busy(run.task[i]) ~> Settled(run.task[i])
    /\ [](\A i \in Tasks : Creations(run.task[i]) <= 1)
    /\ [][\A i \in Tasks : Settled(run.task[i]) => run'.task[i] = run.task[i]]_vars

\* One call has resolved after it created the missing file and made its own
\* save, the other has rejected on a failed request
C38_Witness ==
    \E i, j \in Tasks :
        /\ run.task[i].op = "set" /\ run.task[i].pc = "done"
        /\ run.task[i].trace = <<"create", "load", "mutate", "save">>
        /\ run.task[j].op = "has" /\ run.task[j].pc = "failed"
        /\ run.task[j].err = FsError("read")

====
